---------------------------- MODULE Spec2Model ----------------------------
(***************************************************************************)
(* Model of the fire-detection cloud server (src/cloud_server_plus.py).    *)
(*                                                                         *)
(* Every Python thread is a process with a program counter pc[t] and a     *)
(* record of locals loc[t]; one step is one access to shared state         *)
(* together with the local computation that follows it.  Numbers that the  *)
(* code keeps as floats are kept in hundredths, which is exact for every   *)
(* value the model produces.                                               *)
(***************************************************************************)
EXTENDS Integers, Sequences, FiniteSets, TLC

(***************************************************************************)
(* Bounds of the model.                                                    *)
(***************************************************************************)
\* capacity of every deque: SensorData(max_points); the server passes
\* MAX_DATA_POINTS = 100, the model a smaller capacity
MaxPoints == 2
\* lines written by the gateways plus commands typed by the operator
MaxOps == 2
\* iterations of a fire scenario: range(30) in the code
FireTicks == 2
\* iterations of a car scenario: range(20) in the code
CarTicks == 2

(***************************************************************************)
(* Program constants.                                                      *)
(***************************************************************************)
Hundredths == 100
ALARM_THRESHOLD == 60
SPRINKLER_THRESHOLD == 65

Rooms == {"1200400", "1211371"}
Cars == {"car1", "car2"}
Entities == Rooms \cup Cars

AddrSeq == <<"a1", "a2", "a3">>
Addr == {AddrSeq[i] : i \in 1..Len(AddrSeq)}
ScenThreads == {"s1", "s2"}
Threads == Addr \cup ScenThreads \cup {"main", "acc", "ui"}

Min(x, y) == IF x <= y THEN x ELSE y
Max(x, y) == IF x >= y THEN x ELSE y

IsPrefix(s, t) == Len(s) <= Len(t) /\ SubSeq(t, 1, Len(s)) = s

(***************************************************************************)
(* SensorData: the deques.                                                 *)
(***************************************************************************)
\* a plain list in place of the deque: nothing is ever evicted
DequeAppend_unbounded(dq, x) == Append(dq, x)

\* deque(maxlen=max_points).append
DequeAppend(dq, x) ==
    IF Len(dq) >= MaxPoints THEN Append(Tail(dq), x) ELSE Append(dq, x)

\* SensorData.__init__
SensorDataInit ==
    [timestamps |-> <<>>, smoke |-> <<>>, co2 |-> <<>>, fire |-> <<>>,
     car_temp |-> <<>>, car_status |-> "UNKNOWN",
     alarm_status |-> FALSE, sprinkler_status |-> FALSE]

(***************************************************************************)
(* The wire.  A byte is a token: NL is the newline, "L" and "C" are the    *)
(* lead and the continuation byte of one two-byte UTF-8 character, every   *)
(* other token is an ASCII character (the body tokens of JsonObj stand for *)
(* the text between the braces of a JSON object).                          *)
(***************************************************************************)
NL == "\n"

\* bytes.decode('utf-8', errors='ignore'): an incomplete or a stray byte of
\* a multi-byte character is dropped
RECURSIVE decode(_)
decode(bytes) ==
    IF bytes = <<>> THEN <<>>
    ELSE IF Head(bytes) = "L"
         THEN IF Len(bytes) >= 2 /\ bytes[2] = "C"
              THEN <<"U+E9">> \o decode(SubSeq(bytes, 3, Len(bytes)))
              ELSE decode(Tail(bytes))
         ELSE IF Head(bytes) = "C" THEN decode(Tail(bytes))
         ELSE <<Head(bytes)>> \o decode(Tail(bytes))

HasNL(buf) == \E i \in 1..Len(buf) : buf[i] = NL
FirstNL(buf) == CHOOSE i \in 1..Len(buf) : buf[i] = NL /\ \A j \in 1..(i-1) : buf[j] # NL
\* buffer.split('\n', 1)
split_line(buf) == SubSeq(buf, 1, FirstNL(buf) - 1)
split_rest(buf) == SubSeq(buf, FirstNL(buf) + 1, Len(buf))

\* The JSON objects of the model, by the text between their braces.
JsonObj ==
    [hb    |-> [type |-> "HEARTBEAT", gateway_id |-> "GW-1", seq |-> 1],
     dLo   |-> [type |-> "DATA", gateway_id |-> "GW-1", seq |-> 2,
                sensors |-> [smoke1 |-> 5950, co2_1 |-> 85000, fire1 |-> 3500]],
     dHi   |-> [type |-> "DATA", gateway_id |-> "GW-1", seq |-> 3,
                sensors |-> [smoke1 |-> 7000, co2_1 |-> 90000, fire1 |-> 4000]],
     \* messages of other peers: another, an empty and no gateway_id, and a
     \* type that is neither HEARTBEAT nor DATA
     hb2   |-> [type |-> "HEARTBEAT", gateway_id |-> "GW-2", seq |-> 4],
     hbE   |-> [type |-> "HEARTBEAT", gateway_id |-> "", seq |-> 5],
     hbN   |-> [type |-> "HEARTBEAT", seq |-> 6],
     st    |-> [type |-> "STATUS", gateway_id |-> "GW-1"],
     \* DATA for a car: temperature and status, status only
     dCar  |-> [type |-> "DATA", gateway_id |-> "GW-1", seq |-> 7,
                sensors |-> [car1_temp |-> 3000, car1_status |-> "RUNNING"]],
     dCarP |-> [type |-> "DATA", gateway_id |-> "GW-1", seq |-> 8,
                sensors |-> [car1_status |-> "PARKED"]],
     \* partial DATA: one metric of a room and no seq, a car's temperature
     \* only, keys of a room and of a car, no sensors at all
     dCo2  |-> [type |-> "DATA", gateway_id |-> "GW-1",
                sensors |-> [co2_1 |-> 85000]],
     dTemp |-> [type |-> "DATA", gateway_id |-> "GW-1", seq |-> 9,
                sensors |-> [car1_temp |-> 3000]],
     dMix  |-> [type |-> "DATA", gateway_id |-> "GW-1", seq |-> 2,
                sensors |-> [smoke2 |-> 6200, car2_status |-> "RUNNING"]],
     dNoS  |-> [type |-> "DATA", gateway_id |-> "GW-1", seq |-> 10]]

\* json.loads: a JSON object, another JSON value, or JSONDecodeError
json_loads(line) ==
    IF Len(line) = 3 /\ line[1] = "{" /\ line[3] = "}" /\ line[2] \in DOMAIN JsonObj
    THEN [ok |-> TRUE, isobj |-> TRUE, obj |-> JsonObj[line[2]]]
    ELSE IF line = <<"[", "]">>
         THEN [ok |-> TRUE, isobj |-> FALSE]
         ELSE [ok |-> FALSE]

ObjLine(b) == <<"{", b, "}">>

\* dict.get(key, default)
Get(d, key, default) == IF key \in DOMAIN d THEN d[key] ELSE default

VARIABLES
    running,        \* self.running
    lock,           \* self.lock: "free" or the thread holding it
    clients,        \* self.clients: addr -> (last activity, gateway id)
    sensor_data,    \* self.sensor_data
    events,         \* self.events (the messages)
    packet_count,   \* self.packet_count
    last_seq,       \* self.last_seq
    sock,           \* the server's end of each connection, and the listening
                    \* socket "srv": none, open, closed
    wire,           \* bytes written by the peer and not yet read
    peer,           \* the connection as the peer and the network leave it:
                    \* none, open, eof (the peer closed), reset (an error is
                    \* pending), dead (the error has been reported)
    outbox,         \* CONTROL messages written to each connection
    backlog,        \* connections waiting to be accepted
    now,            \* the clock that time.time() reads
    pc,             \* where each thread is
    loc,            \* each thread's locals
    sent,           \* history: the lines each peer wrote
    dispatched,     \* history: the lines handed to _process_message
    ncmd,           \* history: commands typed so far
    printed,        \* what _process_command and _control_device have printed
    \* gateway_plus.py, class Gateway and its run loop
    seq,            \* self.seq
    last_hb,        \* self.last_hb
    paused,         \* self.paused
    connected,      \* self.connected
    t0,             \* run: t0
    run_now,        \* run: now
    gpc,            \* where run is
    clock,          \* the clock that the gateway's time.time() reads
    link,           \* the gateway's connection: none, up, down (the cloud closed it)
    inbox,          \* CONTROL commands written by the cloud and not yet read
    out,            \* history: the messages handed to sendall without error
    handled         \* history: the commands _handle_control has processed

vars == <<running, lock, clients, sensor_data, events, packet_count, last_seq,
          sock, wire, peer, outbox, backlog, now, pc, loc, sent, dispatched, ncmd,
          printed, seq, last_hb, paused, connected, t0, run_now, gpc, clock, link,
          inbox, out, handled>>

shared == <<clients, sensor_data, events, packet_count, last_seq>>
net == <<sock, wire, peer, outbox, backlog>>
hist == <<sent, dispatched, ncmd, printed>>
gateway == <<seq, last_hb, paused, connected, t0, run_now, gpc, clock, link, inbox, out,
             handled>>

\* gateway_plus.py
HEARTBEAT_INTERVAL == 15
DATA_INTERVAL == 1

\* what time.time() returns when the gateway starts: long after the epoch,
\* so that both intervals have elapsed since time 0
Epoch == HEARTBEAT_INTERVAL + DATA_INTERVAL

\* lines 10-29, 167-168: Gateway.__init__ and the start of run
GatewayInit ==
    /\ seq = 0
    /\ last_hb = 0
    /\ paused = FALSE
    /\ connected = FALSE
    /\ t0 = 0
    /\ run_now = 0
    /\ gpc = "run"
    /\ clock = Epoch
    /\ link = "none"
    /\ inbox = <<>>
    /\ out = <<>>
    /\ handled = <<>>

\* what the gateways and the operator have done so far
Ops == ncmd + Len(sent["a1"]) + Len(sent["a2"]) + Len(sent["a3"])

NoData == [type |-> "none"]
NoLoc == [buffer |-> <<>>, line |-> <<>>, data |-> NoData, tmp |-> 0, sec |-> 0, ts |-> 0,
          prev |-> "", todo |-> <<>>, msg |-> "", ret |-> "", i |-> 0]
NotRegistered == [in |-> FALSE, last |-> 0, gw |-> "UNKNOWN"]

\* The state after CloudServer.__init__
Init ==
    /\ running = FALSE
    /\ lock = "free"
    /\ clients = [a \in Addr |-> NotRegistered]
    /\ sensor_data = [e \in Entities |-> SensorDataInit]
    /\ events = <<"Starting cloud server ...">>
    /\ packet_count = 0
    /\ last_seq = 0
    /\ sock = [a \in Addr \cup {"srv"} |-> "none"]
    /\ wire = [a \in Addr |-> <<>>]
    /\ peer = [a \in Addr |-> "none"]
    /\ outbox = [a \in Addr |-> <<>>]
    /\ backlog = {}
    /\ now = 0
    /\ pc = [t \in Threads |-> IF t = "main" THEN "start" ELSE "none"]
    /\ loc = [t \in Threads |-> NoLoc]
    /\ sent = [a \in Addr |-> <<>>]
    /\ dispatched = [a \in Addr |-> <<>>]
    /\ ncmd = 0
    /\ printed = <<>>
    /\ GatewayInit

(***************************************************************************)
(* The peers (gateways) and the network.                                   *)
(***************************************************************************)
\* a gateway connects: the connection waits in the listen backlog
Connect(a) ==
    /\ running
    /\ peer[a] = "none"
    /\ peer' = [peer EXCEPT ![a] = "open"]
    /\ backlog' = backlog \cup {a}
    /\ UNCHANGED <<running, lock, shared, sock, wire, outbox, now, gateway, pc, loc, hist>>

\* the peer writes one newline-terminated line
Send(a, line) ==
    /\ peer[a] = "open"
    /\ Ops < MaxOps
    /\ wire' = [wire EXCEPT ![a] = @ \o line \o <<NL>>]
    /\ sent' = [sent EXCEPT ![a] = Append(@, line)]
    /\ UNCHANGED <<running, lock, shared, sock, peer, outbox, backlog, now, gateway, pc, loc,
                   dispatched, ncmd, printed>>

\* the peer closes its end: once the wire is drained, recv returns b''
PeerClose(a) ==
    /\ peer[a] = "open"
    /\ peer' = [peer EXCEPT ![a] = "eof"]
    /\ UNCHANGED <<running, lock, shared, sock, wire, outbox, backlog, now, gateway, pc, loc, hist>>

\* the connection is reset: recv raises ConnectionResetError and sendall
\* fails; once recv has reported the error the socket may stay in error or
\* read as closed (b''), as the platform has it
PeerReset(a) ==
    /\ peer[a] = "open"
    /\ peer' = [peer EXCEPT ![a] = "reset"]
    /\ wire' = [wire EXCEPT ![a] = <<>>]
    /\ UNCHANGED <<running, lock, shared, sock, outbox, backlog, now, gateway, pc, loc, hist>>

\* the clock advances
MaxTime == 2
Tick ==
    /\ now < MaxTime
    /\ now' = now + 1
    /\ UNCHANGED <<running, lock, shared, net, pc, loc, hist, gateway>>

(***************************************************************************)
(* CloudServer._client_loop, one thread per accepted connection.           *)
(***************************************************************************)
\* sock.recv raises an exception that is not socket.timeout
RecvRaises(a) == sock[a] # "open" \/ peer[a] = "reset"

\* line 211: while self.running (wait_for_step is never set to True)
client_loop_head(a) ==
    /\ pc[a] = "loop"
    /\ pc' = [pc EXCEPT ![a] = IF running THEN "recv" ELSE "finally"]
    /\ UNCHANGED <<running, lock, shared, net, now, gateway, loc, hist>>

\* lines 215-217 and 221-224: data = sock.recv(BUFFER_SIZE) returns the first n
\* bytes written; b'' leaves the loop; socket.timeout and every other
\* exception go back to the loop head
client_loop_recv(a, n) ==
    /\ pc[a] = "recv"
    /\ IF RecvRaises(a)
       THEN /\ n = 1
            /\ pc' = [pc EXCEPT ![a] = "loop"]
            /\ \E p \in {"reset", "dead"} :
                  peer' = [peer EXCEPT ![a] = IF @ = "reset" THEN p ELSE @]
            /\ UNCHANGED <<wire, loc>>
       ELSE IF wire[a] # <<>>
       THEN /\ n \in 1..Len(wire[a])
            /\ loc' = [loc EXCEPT ![a].buffer = @ \o decode(SubSeq(wire[a], 1, n))]
            /\ wire' = [wire EXCEPT ![a] = SubSeq(@, n + 1, Len(@))]
            /\ pc' = [pc EXCEPT ![a] = "split"]
            /\ UNCHANGED peer
       ELSE IF peer[a] \in {"eof", "dead"}
       THEN /\ n = 1
            /\ pc' = [pc EXCEPT ![a] = "finally"]
            /\ UNCHANGED <<wire, loc, peer>>
       ELSE /\ n = 1
            /\ pc' = [pc EXCEPT ![a] = "loop"]
            /\ UNCHANGED <<wire, loc, peer>>
    /\ UNCHANGED <<running, lock, shared, sock, outbox, backlog, now, gateway, hist>>

\* lines 218-220: while '\n' in buffer: line, buffer = buffer.split('\n', 1)
client_loop_split(a) ==
    /\ pc[a] = "split"
    /\ IF HasNL(loc[a].buffer)
       THEN /\ loc' = [loc EXCEPT ![a].line = split_line(loc[a].buffer),
                                  ![a].buffer = split_rest(loc[a].buffer)]
            /\ dispatched' = [dispatched EXCEPT ![a] = Append(@, split_line(loc[a].buffer))]
            /\ pc' = [pc EXCEPT ![a] = "parse"]
       ELSE /\ pc' = [pc EXCEPT ![a] = "loop"]
            /\ UNCHANGED <<loc, dispatched>>
    /\ UNCHANGED <<running, lock, shared, net, now, gateway, sent, ncmd, printed>>

\* lines 225-227: finally: sock.close()
client_loop_close(a) ==
    /\ pc[a] = "finally"
    /\ sock' = [sock EXCEPT ![a] = "closed"]
    /\ pc' = [pc EXCEPT ![a] = "fin_lock"]
    /\ UNCHANGED <<running, lock, shared, wire, peer, outbox, backlog, now, gateway, loc, hist>>

\* line 228: with self.lock
client_loop_fin_lock(a) ==
    /\ pc[a] = "fin_lock"
    /\ lock = "free"
    /\ lock' = a
    /\ pc' = [pc EXCEPT ![a] = "fin_pop"]
    /\ UNCHANGED <<running, shared, net, now, gateway, loc, hist>>

\* line 229: self.clients.pop(addr, None), and the lock is released
client_loop_pop(a) ==
    /\ pc[a] = "fin_pop"
    /\ clients' = [clients EXCEPT ![a] = NotRegistered]
    /\ lock' = "free"
    /\ pc' = [pc EXCEPT ![a] = "closed"]
    /\ loc' = [loc EXCEPT ![a] = NoLoc]
    /\ UNCHANGED <<running, sensor_data, events, packet_count, last_seq, net, now, gateway, hist>>

(***************************************************************************)
(* CloudServer._process_message                                            *)
(***************************************************************************)
\* a handler that gives the connection up on a line that does not parse
process_message_parse_fatal(a) ==
    /\ pc[a] = "parse"
    /\ LET v == json_loads(loc[a].line) IN
       IF ~v.ok
       THEN /\ pc' = [pc EXCEPT ![a] = "finally"]
            /\ loc' = [loc EXCEPT ![a].line = <<>>]
       ELSE /\ pc' = [pc EXCEPT ![a] = "pm_lock"]
            /\ loc' = [loc EXCEPT ![a].line = <<>>,
                                  ![a].data = IF v.isobj THEN v.obj ELSE [type |-> "nonobject"]]
    /\ UNCHANGED <<running, lock, shared, net, now, gateway, hist>>

\* lines 233-237: json.loads(line); on JSONDecodeError the line is logged and
\* dropped
process_message_parse(a) ==
    /\ pc[a] = "parse"
    /\ LET v == json_loads(loc[a].line) IN
       IF ~v.ok
       THEN /\ pc' = [pc EXCEPT ![a] = "split"]
            /\ loc' = [loc EXCEPT ![a].line = <<>>]
       ELSE /\ pc' = [pc EXCEPT ![a] = "pm_lock"]
            /\ loc' = [loc EXCEPT ![a].line = <<>>,
                                  ![a].data = IF v.isobj THEN v.obj ELSE [type |-> "nonobject"]]
    /\ UNCHANGED <<running, lock, shared, net, now, gateway, hist>>

\* line 239: with self.lock
process_message_lock(a) ==
    /\ pc[a] = "pm_lock"
    /\ lock = "free"
    /\ lock' = a
    /\ pc' = [pc EXCEPT ![a] = "pm_upd"]
    /\ UNCHANGED <<running, shared, net, now, gateway, loc, hist>>

\* the sections of _on_data, in the order of the code
Sections == <<"1200400", "1211371", "car1", "car2">>
\* the keys of `sensors` that belong to each section
KeysOf ==
    ("1200400" :> {"smoke1", "co2_1", "fire1"}) @@
    ("1211371" :> {"smoke2", "co2_2", "fire2"}) @@
    ("car1" :> {"car1_temp", "car1_status"}) @@
    ("car2" :> {"car2_temp", "car2_status"})
SmokeKey == ("1200400" :> "smoke1") @@ ("1211371" :> "smoke2")
Co2Key == ("1200400" :> "co2_1") @@ ("1211371" :> "co2_2")
FireKey == ("1200400" :> "fire1") @@ ("1211371" :> "fire2")
TempKey == ("car1" :> "car1_temp") @@ ("car2" :> "car2_temp")
StatusKey == ("car1" :> "car1_status") @@ ("car2" :> "car2_status")

\* an _on_data that takes a section only if all its keys are in sensors
NextSection_all_keys(sensors, k) ==
    LET has == {j \in k..Len(Sections) : KeysOf[Sections[j]] \subseteq DOMAIN sensors}
    IN  IF has = {} THEN Len(Sections) + 1
        ELSE CHOOSE j \in has : \A i \in has : j <= i

\* lines 267, 278, 289, 298: the first section from k on with a key in sensors
NextSection(sensors, k) ==
    LET has == {j \in k..Len(Sections) : KeysOf[Sections[j]] \cap DOMAIN sensors # {}}
    IN  IF has = {} THEN Len(Sections) + 1
        ELSE CHOOSE j \in has : \A i \in has : j <= i

SectionPc(k) ==
    IF k > Len(Sections) THEN "split"
    ELSE IF Sections[k] \in Rooms THEN "r_ts" ELSE "c_prev"

\* lines 240-248: the registry entry is refreshed and the lock released; then
\* the message is dispatched on its type.  A JSON value that is no object has
\* no .get: the AttributeError leaves _process_message and is caught in
\* _client_loop, line 223.
\* a _process_message that leaves its registry update on an exception
\* without releasing the lock
process_message_update_keeps_lock(a) ==
    /\ pc[a] = "pm_upd"
    /\ pc' = [pc EXCEPT ![a] = IF loc[a].data.type = "nonobject" THEN "loop" ELSE "split"]
    /\ loc' = [loc EXCEPT ![a].data = NoData]
    /\ lock' = IF loc[a].data.type = "nonobject" THEN lock ELSE "free"
    /\ clients' = IF clients[a].in /\ loc[a].data.type # "nonobject"
                  THEN [clients EXCEPT ![a].last = now,
                                       ![a].gw = Get(loc[a].data, "gateway_id", clients[a].gw)]
                  ELSE clients
    /\ UNCHANGED <<running, sensor_data, events, packet_count, last_seq, net, now, gateway, hist>>

\* a _process_message that hands every decoded object to _on_data
process_message_update_all_data(a) ==
    /\ pc[a] = "pm_upd"
    /\ lock' = "free"
    /\ clients' = IF clients[a].in
                  THEN [clients EXCEPT ![a].last = now,
                                       ![a].gw = Get(loc[a].data, "gateway_id", clients[a].gw)]
                  ELSE clients
    /\ pc' = [pc EXCEPT ![a] = "d_seq_r"]
    /\ UNCHANGED <<running, sensor_data, events, packet_count, last_seq, net, now, gateway, loc, hist>>

process_message_update(a) ==
    /\ pc[a] = "pm_upd"
    /\ lock' = "free"
    /\ LET data == loc[a].data IN
       IF data.type = "nonobject"
       THEN /\ pc' = [pc EXCEPT ![a] = "loop"]
            /\ loc' = [loc EXCEPT ![a].data = NoData]
            /\ UNCHANGED clients
       ELSE /\ clients' = IF clients[a].in
                          THEN [clients EXCEPT ![a].last = now,
                                               ![a].gw = Get(data, "gateway_id", clients[a].gw)]
                          ELSE clients
            /\ IF Get(data, "type", "") = "DATA"
               THEN /\ pc' = [pc EXCEPT ![a] = "d_seq_r"]
                    /\ UNCHANGED loc
               ELSE /\ pc' = [pc EXCEPT ![a] = "split"]
                    /\ loc' = [loc EXCEPT ![a].data = NoData]
    /\ UNCHANGED <<running, sensor_data, events, packet_count, last_seq, net, now, gateway, hist>>

(***************************************************************************)
(* SensorData.add_room and add_car, one deque at a time.                   *)
(***************************************************************************)
add_ts(sd, e, ts) == [sd EXCEPT ![e].timestamps = DequeAppend(@, ts)]
add_smoke(sd, e, v) == [sd EXCEPT ![e].smoke = DequeAppend(@, v)]
add_co2(sd, e, v) == [sd EXCEPT ![e].co2 = DequeAppend(@, v)]
add_fire(sd, e, v) == [sd EXCEPT ![e].fire = DequeAppend(@, v)]
add_temp(sd, e, v) == [sd EXCEPT ![e].car_temp = DequeAppend(@, v)]

\* CloudServer.add_event
add_event(ev, msg) == Append(ev, msg)

(***************************************************************************)
(* CloudServer._on_data                                                    *)
(***************************************************************************)
Sensors(a) == Get(loc[a].data, "sensors", <<>>)
Ent(a) == Sections[loc[a].sec]
\* lines 268-270, 279-281: float(sensors.get(key, 0.0))
Smoke(a) == Get(Sensors(a), SmokeKey[Ent(a)], 0)
Co2(a) == Get(Sensors(a), Co2Key[Ent(a)], 0)
Fire(a) == Get(Sensors(a), FireKey[Ent(a)], 0)
\* lines 290-291, 299-300
Temp(a) == Get(Sensors(a), TempKey[Ent(a)], 25 * Hundredths)
Status(a) == Get(Sensors(a), StatusKey[Ent(a)], "UNKNOWN")

\* a handler that drops a DATA message whose seq is not above last_seq
on_data_seq_read_reject(a) ==
    /\ pc[a] = "d_seq_r"
    /\ IF Get(loc[a].data, "seq", 0) <= last_seq
       THEN /\ pc' = [pc EXCEPT ![a] = "split"]
            /\ loc' = [loc EXCEPT ![a].data = NoData]
       ELSE /\ pc' = [pc EXCEPT ![a] = "d_seq_w"]
            /\ loc' = [loc EXCEPT ![a].tmp = Get(loc[a].data, "seq", 0)]
    /\ UNCHANGED <<running, lock, shared, net, now, gateway, hist>>

\* line 260: self.last_seq = max(self.last_seq, seq), the read
on_data_seq_read(a) ==
    /\ pc[a] = "d_seq_r"
    /\ loc' = [loc EXCEPT ![a].tmp = Max(last_seq, Get(loc[a].data, "seq", 0))]
    /\ pc' = [pc EXCEPT ![a] = "d_seq_w"]
    /\ UNCHANGED <<running, lock, shared, net, now, gateway, hist>>

\* line 260, the write
on_data_seq_write(a) ==
    /\ pc[a] = "d_seq_w"
    /\ last_seq' = loc[a].tmp
    /\ pc' = [pc EXCEPT ![a] = "d_cnt_r"]
    /\ UNCHANGED <<running, lock, clients, sensor_data, events, packet_count, net, now, gateway,
                   loc, hist>>

\* line 261: self.packet_count += 1, the read
on_data_count_read(a) ==
    /\ pc[a] = "d_cnt_r"
    /\ loc' = [loc EXCEPT ![a].tmp = packet_count + 1]
    /\ pc' = [pc EXCEPT ![a] = "d_cnt_w"]
    /\ UNCHANGED <<running, lock, shared, net, now, gateway, hist>>

\* line 261, the write; line 264: ts = time.time(); then the first section
on_data_count_write(a) ==
    /\ pc[a] = "d_cnt_w"
    /\ packet_count' = loc[a].tmp
    /\ LET k == NextSection(Sensors(a), 1) IN
       /\ pc' = [pc EXCEPT ![a] = SectionPc(k)]
       /\ loc' = [loc EXCEPT ![a].tmp = 0, ![a].ts = now,
                             ![a].sec = IF k > Len(Sections) THEN 0 ELSE k,
                             ![a].data = IF k > Len(Sections) THEN NoData ELSE @]
    /\ UNCHANGED <<running, lock, clients, sensor_data, events, last_seq, net, now, gateway, hist>>

\* the section is done: on to the next one, or back to _client_loop
EndSection(a) ==
    LET k == NextSection(Sensors(a), loc[a].sec + 1) IN
    /\ pc' = [pc EXCEPT ![a] = SectionPc(k)]
    /\ loc' = IF k > Len(Sections)
              THEN [loc EXCEPT ![a].sec = 0, ![a].ts = 0, ![a].data = NoData, ![a].prev = ""]
              ELSE [loc EXCEPT ![a].sec = k, ![a].prev = ""]

\* lines 271, 282: add_room, line 41
on_data_room_ts(a) ==
    /\ pc[a] = "r_ts"
    /\ sensor_data' = add_ts(sensor_data, Ent(a), loc[a].ts)
    /\ pc' = [pc EXCEPT ![a] = "r_smoke"]
    /\ UNCHANGED <<running, lock, clients, events, packet_count, last_seq, net, now, gateway, loc, hist>>

\* add_room, line 42
on_data_room_smoke(a) ==
    /\ pc[a] = "r_smoke"
    /\ sensor_data' = add_smoke(sensor_data, Ent(a), Smoke(a))
    /\ pc' = [pc EXCEPT ![a] = "r_co2"]
    /\ UNCHANGED <<running, lock, clients, events, packet_count, last_seq, net, now, gateway, loc, hist>>

\* add_room, line 43
on_data_room_co2(a) ==
    /\ pc[a] = "r_co2"
    /\ sensor_data' = add_co2(sensor_data, Ent(a), Co2(a))
    /\ pc' = [pc EXCEPT ![a] = "r_fire"]
    /\ UNCHANGED <<running, lock, clients, events, packet_count, last_seq, net, now, gateway, loc, hist>>

\* add_room, line 44
on_data_room_fire(a) ==
    /\ pc[a] = "r_fire"
    /\ sensor_data' = add_fire(sensor_data, Ent(a), Fire(a))
    /\ pc' = [pc EXCEPT ![a] = "r_al"]
    /\ UNCHANGED <<running, lock, clients, events, packet_count, last_seq, net, now, gateway, loc, hist>>
\* an edge-triggered alarm: due only when the sample before was below the threshold
AlarmDue_rising_edge(smoke, sd) ==
    /\ smoke >= ALARM_THRESHOLD * Hundredths
    /\ ~sd.alarm_status
    /\ Len(sd.smoke) < 2 \/ sd.smoke[Len(sd.smoke) - 1] < ALARM_THRESHOLD * Hundredths


\* lines 272, 283: if smoke >= ALARM_THRESHOLD and not alarm_status
\* an alarm whose threshold lies above the sprinkler's
AlarmDue_above_sprinkler(smoke, sd) ==
    smoke > SPRINKLER_THRESHOLD * Hundredths + ALARM_THRESHOLD * Hundredths /\ ~sd.alarm_status
AlarmDue(smoke, sd) == smoke >= ALARM_THRESHOLD * Hundredths /\ ~sd.alarm_status
\* a sprinkler that only goes on in a room already in alarm
SprinklerDue_in_alarm(smoke, sd) ==
    smoke >= SPRINKLER_THRESHOLD * Hundredths /\ ~sd.sprinkler_status /\ sd.alarm_status
\* lines 274, 285: if smoke >= SPRINKLER_THRESHOLD and not sprinkler_status
SprinklerDue(smoke, sd) == smoke >= SPRINKLER_THRESHOLD * Hundredths /\ ~sd.sprinkler_status

AlarmOn(e) == "ALARM_" \o e \o " -> ON"
SprinklerOn(e) == "SPRINKLER_" \o e \o " -> ON"

\* an alarm that follows the sample instead of latching
on_data_alarm_test_follow(a) ==
    /\ pc[a] = "r_al"
    /\ IF AlarmDue(Smoke(a), sensor_data[Ent(a)])
       THEN pc' = [pc EXCEPT ![a] = "r_al_set"] /\ UNCHANGED sensor_data
       ELSE /\ sensor_data' = [sensor_data EXCEPT ![Ent(a)].alarm_status =
                                   Smoke(a) >= ALARM_THRESHOLD * Hundredths]
            /\ pc' = [pc EXCEPT ![a] = "r_sp"]
    /\ UNCHANGED <<running, lock, clients, events, packet_count, last_seq, net, now, gateway, loc, hist>>

\* lines 272, 283: the test of the alarm latch
on_data_alarm_test(a) ==
    /\ pc[a] = "r_al"
    /\ pc' = [pc EXCEPT ![a] = IF AlarmDue(Smoke(a), sensor_data[Ent(a)])
                               THEN "r_al_set" ELSE "r_sp"]
    /\ UNCHANGED <<running, lock, shared, net, now, gateway, loc, hist>>

\* lines 273, 284: alarm_status = True
on_data_alarm_set(a) ==
    /\ pc[a] = "r_al_set"
    /\ sensor_data' = [sensor_data EXCEPT ![Ent(a)].alarm_status = TRUE]
    /\ pc' = [pc EXCEPT ![a] = "r_al_ev"]
    /\ UNCHANGED <<running, lock, clients, events, packet_count, last_seq, net, now, gateway, loc, hist>>

\* lines 273, 284: self.add_event("ALARM_<id> -> ON")
on_data_alarm_event(a) ==
    /\ pc[a] = "r_al_ev"
    /\ events' = add_event(events, AlarmOn(Ent(a)))
    /\ pc' = [pc EXCEPT ![a] = "r_sp"]
    /\ UNCHANGED <<running, lock, clients, sensor_data, packet_count, last_seq, net, now, gateway,
                   loc, hist>>

on_data_sprinkler_test(a) ==
    /\ pc[a] = "r_sp"
    /\ IF SprinklerDue(Smoke(a), sensor_data[Ent(a)])
       THEN pc' = [pc EXCEPT ![a] = "r_sp_set"] /\ UNCHANGED loc
       ELSE EndSection(a)
    /\ UNCHANGED <<running, lock, shared, net, now, gateway, hist>>

\* lines 275, 286: sprinkler_status = True
on_data_sprinkler_set(a) ==
    /\ pc[a] = "r_sp_set"
    /\ sensor_data' = [sensor_data EXCEPT ![Ent(a)].sprinkler_status = TRUE]
    /\ pc' = [pc EXCEPT ![a] = "r_sp_ev"]
    /\ UNCHANGED <<running, lock, clients, events, packet_count, last_seq, net, now, gateway, loc, hist>>

\* lines 275, 286: self.add_event("SPRINKLER_<id> -> ON")
on_data_sprinkler_event(a) ==
    /\ pc[a] = "r_sp_ev"
    /\ events' = add_event(events, SprinklerOn(Ent(a)))
    /\ EndSection(a)
    /\ UNCHANGED <<running, lock, clients, sensor_data, packet_count, last_seq, net, now, gateway, hist>>

CarName == ("car1" :> "Car1") @@ ("car2" :> "Car2")
CarEvent(e, prev, status) == CarName[e] \o " " \o prev \o " -> " \o status

\* lines 292, 301: prev = self.sensor_data[car].car_status
on_data_car_prev(a) ==
    /\ pc[a] = "c_prev"
    /\ loc' = [loc EXCEPT ![a].prev = sensor_data[Ent(a)].car_status]
    /\ pc' = [pc EXCEPT ![a] = "c_ts"]
    /\ UNCHANGED <<running, lock, shared, net, now, gateway, hist>>

\* lines 293, 302: add_car, line 47
on_data_car_ts(a) ==
    /\ pc[a] = "c_ts"
    /\ sensor_data' = add_ts(sensor_data, Ent(a), loc[a].ts)
    /\ pc' = [pc EXCEPT ![a] = "c_temp"]
    /\ UNCHANGED <<running, lock, clients, events, packet_count, last_seq, net, now, gateway, loc, hist>>

\* add_car, line 48
on_data_car_temp(a) ==
    /\ pc[a] = "c_temp"
    /\ sensor_data' = add_temp(sensor_data, Ent(a), Temp(a))
    /\ pc' = [pc EXCEPT ![a] = "c_status"]
    /\ UNCHANGED <<running, lock, clients, events, packet_count, last_seq, net, now, gateway, loc, hist>>

\* add_car, lines 49-50: status is never None here; lines 294, 303: if prev != status
on_data_car_status(a) ==
    /\ pc[a] = "c_status"
    /\ sensor_data' = [sensor_data EXCEPT ![Ent(a)].car_status = Status(a)]
    /\ IF loc[a].prev # Status(a)
       THEN pc' = [pc EXCEPT ![a] = "c_ev"] /\ UNCHANGED loc
       ELSE EndSection(a)
    /\ UNCHANGED <<running, lock, clients, events, packet_count, last_seq, net, now, gateway, hist>>

\* lines 295, 304: self.add_event("Car1 <prev> -> <status>")
on_data_car_event(a) ==
    /\ pc[a] = "c_ev"
    /\ events' = add_event(events, CarEvent(Ent(a), loc[a].prev, Status(a)))
    /\ EndSection(a)
    /\ UNCHANGED <<running, lock, clients, sensor_data, packet_count, last_seq, net, now, gateway, hist>>

\* the steps of one connection's thread inside its loop
client_thread(a) ==
    \/ client_loop_head(a)
    \/ client_loop_split(a)
    \/ process_message_parse(a)
    \/ process_message_lock(a)
    \/ process_message_update(a)

\* lines 225-230: the finally block of _client_loop
client_loop_finally(a) ==
    \/ client_loop_close(a)
    \/ client_loop_fin_lock(a)
    \/ client_loop_pop(a)

on_data_room(a) ==
    \/ on_data_seq_read(a)
    \/ on_data_seq_write(a)
    \/ on_data_count_read(a)
    \/ on_data_count_write(a)
    \/ on_data_room_ts(a)
    \/ on_data_room_smoke(a)
    \/ on_data_room_co2(a)
    \/ on_data_room_fire(a)
    \/ on_data_alarm_test(a)
    \/ on_data_alarm_set(a)
    \/ on_data_alarm_event(a)
    \/ on_data_sprinkler_test(a)
    \/ on_data_sprinkler_set(a)
    \/ on_data_sprinkler_event(a)

on_data_car(a) ==
    \/ on_data_car_prev(a)
    \/ on_data_car_ts(a)
    \/ on_data_car_temp(a)
    \/ on_data_car_status(a)
    \/ on_data_car_event(a)

(***************************************************************************)
(* CloudServer.start and _accept_loop                                      *)
(***************************************************************************)
\* lines 174-185: the socket listens, running is set, the threads start
start ==
    /\ pc["main"] = "start"
    /\ running' = TRUE
    /\ sock' = [sock EXCEPT !["srv"] = "open"]
    /\ pc' = [pc EXCEPT !["main"] = "main_loop", !["acc"] = "accept", !["ui"] = "ui_loop"]
    /\ UNCHANGED <<lock, shared, wire, peer, outbox, backlog, now, gateway, loc, hist>>

\* lines 195-198: accept() returns a connection, or times out
accept_loop_accept(a) ==
    /\ pc["acc"] = "accept"
    /\ running
    /\ a \in backlog
    /\ backlog' = backlog \ {a}
    /\ sock' = [sock EXCEPT ![a] = "open"]
    /\ loc' = [loc EXCEPT !["acc"].line = <<a>>]
    /\ pc' = [pc EXCEPT !["acc"] = "acc_lock"]
    /\ UNCHANGED <<running, lock, shared, wire, peer, outbox, now, gateway, hist>>

\* line 199: with self.lock
accept_loop_lock ==
    /\ pc["acc"] = "acc_lock"
    /\ lock = "free"
    /\ lock' = "acc"
    /\ pc' = [pc EXCEPT !["acc"] = "acc_reg"]
    /\ UNCHANGED <<running, shared, net, now, gateway, loc, hist>>

\* lines 200-202: the session is registered, the lock released and the
\* connection's thread started
accept_loop_register ==
    /\ pc["acc"] = "acc_reg"
    /\ LET a == loc["acc"].line[1] IN
       /\ clients' = [clients EXCEPT ![a] = [in |-> TRUE, last |-> now, gw |-> "UNKNOWN"]]
       /\ pc' = [pc EXCEPT !["acc"] = "accept", ![a] = "loop"]
    /\ lock' = "free"
    /\ loc' = [loc EXCEPT !["acc"].line = <<>>]
    /\ UNCHANGED <<running, sensor_data, events, packet_count, last_seq, net, now, gateway, hist>>

accept_thread ==
    \/ \E a \in Addr : accept_loop_accept(a)
    \/ accept_loop_lock
    \/ accept_loop_register

(***************************************************************************)
(* CloudServer._send_control_all, called by the console thread and by      *)
(* every scenario thread t; loc[t].ret is where the caller goes on.        *)
(***************************************************************************)
\* sock.sendall raises
SendRaises(a) == sock[a] # "open" \/ peer[a] \in {"reset", "dead"}

\* msg.encode() as the bytes one send() takes and the bytes it leaves
FirstPart(msg) == msg \o " <"
SecondPart(msg) == msg \o " >"

\* list(self.clients.items()): the registered sessions
Items(cl) == SelectSeq(AddrSeq, LAMBDA a : cl[a].in)

\* a broadcast that lists the sessions without taking the lock
send_control_all_lock_free(t) ==
    /\ pc[t] = "bc_lock"
    /\ loc' = [loc EXCEPT ![t].todo = Items(clients)]
    /\ pc' = [pc EXCEPT ![t] = "bc_send"]
    /\ UNCHANGED <<running, lock, shared, net, now, gateway, hist>>

\* lines 399-402: the message is built, the lock taken, the sessions listed
send_control_all_lock(t) ==
    /\ pc[t] = "bc_lock"
    /\ lock = "free"
    /\ lock' = t
    /\ loc' = [loc EXCEPT ![t].todo = Items(clients)]
    /\ pc' = [pc EXCEPT ![t] = "bc_send"]
    /\ UNCHANGED <<running, shared, net, now, gateway, hist>>

\* lines 403-407: one sendall, its failure logged; after the last session the
\* lock is released
send_control_all_send(t) ==
    /\ pc[t] = "bc_send"
    /\ IF loc[t].todo = <<>>
       THEN /\ lock' = "free"
            /\ pc' = [pc EXCEPT ![t] = loc[t].ret]
            /\ loc' = [loc EXCEPT ![t].msg = "", ![t].ret = ""]
            /\ UNCHANGED outbox
       ELSE /\ LET a == Head(loc[t].todo) IN
               outbox' = IF SendRaises(a) THEN outbox
                         ELSE [outbox EXCEPT ![a] =
                                  Append(@, IF loc[t].tmp = 0 THEN loc[t].msg
                                            ELSE SecondPart(loc[t].msg))]
            /\ loc' = [loc EXCEPT ![t].todo = Tail(@), ![t].tmp = 0]
            /\ UNCHANGED <<lock, pc>>
    /\ UNCHANGED <<running, shared, sock, wire, peer, backlog, now, gateway, hist>>

\* line 404: sendall calls send() until all bytes are written; a send() that
\* takes only the first bytes of the message leaves the rest, with the
\* newline, to the next call.  loc[t].tmp counts the parts written.
send_control_all_part(t) ==
    /\ pc[t] = "bc_send"
    /\ loc[t].todo # <<>>
    /\ loc[t].tmp = 0
    /\ ~SendRaises(Head(loc[t].todo))
    /\ outbox' = [outbox EXCEPT ![Head(loc[t].todo)] = Append(@, FirstPart(loc[t].msg))]
    /\ loc' = [loc EXCEPT ![t].tmp = 1]
    /\ UNCHANGED <<running, lock, shared, sock, wire, peer, backlog, now, gateway, pc, hist>>

send_control_all(t) ==
    \/ send_control_all_lock(t)
    \/ send_control_all_send(t)

(***************************************************************************)
(* CloudServer._ui_loop, _process_command and _control_device              *)
(***************************************************************************)
\* str.upper on the words of the model
Upper(w) ==
    CASE w = "alarm_" -> "ALARM_"
      [] w = "sprink_" -> "SPRINK_"
      [] w = "fan_" -> "FAN_"
      [] w = "car1" -> "CAR1"
      [] w = "car2" -> "CAR2"
      [] w = "on" -> "ON"
      [] w = "off" -> "OFF"
      [] OTHER -> w

\* self.scenarios
ScenarioNames == {"fire1", "fire2", "co2_high", "car1", "car2", "normal", "test"}

\* lines 311-315: while self.running: the dashboard is printed and a command
\* read
ui_loop_head ==
    /\ pc["ui"] = "ui_loop"
    /\ pc' = [pc EXCEPT !["ui"] = IF running THEN "ui_input" ELSE "done"]
    /\ UNCHANGED <<running, lock, shared, net, now, gateway, loc, hist>>

Typed ==
    /\ Ops < MaxOps
    /\ ncmd' = ncmd + 1
    /\ UNCHANGED <<sent, dispatched>>

\* lines 364-367: pause-gw and resume-gw
process_command_gw(command) ==
    /\ pc["ui"] = "ui_input"
    /\ Typed
    /\ command \in {"PAUSE", "RESUME"}
    /\ loc' = [loc EXCEPT !["ui"].msg = command, !["ui"].ret = "ui_loop"]
    /\ pc' = [pc EXCEPT !["ui"] = "bc_lock"]
    /\ UNCHANGED <<running, lock, shared, net, now, gateway, printed>>

\* lines 391-392: exit
process_command_exit ==
    /\ pc["ui"] = "ui_input"
    /\ Typed
    /\ running' = FALSE
    /\ pc' = [pc EXCEPT !["ui"] = "ui_loop"]
    /\ UNCHANGED <<lock, shared, net, now, gateway, loc, printed>>

\* lines 380-382 and 410-421: control <prefix><id> <state>.  The device key
\* is upper-cased before it is looked up.
process_command_control(prefix, id, state) ==
    /\ pc["ui"] = "ui_input"
    /\ Typed
    /\ LET dev == Upper(prefix)
           room == Upper(id)
       IN  IF dev \in {"ALARM_", "SPRINK_"} /\ room \in DOMAIN sensor_data
           THEN /\ pc' = [pc EXCEPT !["ui"] = "cd_set"]
                /\ loc' = [loc EXCEPT !["ui"].data =
                               [dev |-> dev, room |-> room, state |-> (Upper(state) = "ON")]]
                /\ UNCHANGED printed
           ELSE /\ pc' = [pc EXCEPT !["ui"] = "ui_loop"]
                /\ printed' = IF dev \in {"ALARM_", "SPRINK_"} THEN printed
                              ELSE Append(printed, "Unknown device: " \o dev \o room)
                /\ UNCHANGED loc
    /\ UNCHANGED <<running, lock, shared, net, now, gateway>>

\* lines 413, 418: the latch is set to the requested state
control_device_set ==
    /\ pc["ui"] = "cd_set"
    /\ LET d == loc["ui"].data IN
       sensor_data' = IF d.dev = "ALARM_"
                      THEN [sensor_data EXCEPT ![d.room].alarm_status = d.state]
                      ELSE [sensor_data EXCEPT ![d.room].sprinkler_status = d.state]
    /\ pc' = [pc EXCEPT !["ui"] = "cd_ev"]
    /\ UNCHANGED <<running, lock, clients, events, packet_count, last_seq, net, now, gateway, loc, hist>>

\* lines 414, 419: self.add_event("<device> -> ON|OFF")
control_device_event ==
    /\ pc["ui"] = "cd_ev"
    /\ LET d == loc["ui"].data IN
       events' = add_event(events, d.dev \o d.room \o " -> " \o (IF d.state THEN "ON" ELSE "OFF"))
    /\ pc' = [pc EXCEPT !["ui"] = "ui_loop"]
    /\ loc' = [loc EXCEPT !["ui"].data = NoData]
    /\ UNCHANGED <<running, lock, clients, sensor_data, packet_count, last_seq, net, now, gateway, hist>>

\* lines 368-379: scenario <name>: known names are logged as an Event and
\* started on a thread of their own
process_command_scenario(name, s) ==
    /\ pc["ui"] = "ui_input"
    /\ Typed
    /\ IF name \in ScenarioNames
       THEN /\ pc[s] \in {"none", "done"}
            /\ s = IF pc["s1"] \in {"none", "done"} THEN "s1" ELSE "s2"
            /\ events' = add_event(events, "Running scenario: " \o name)
            /\ pc' = [pc EXCEPT !["ui"] = "ui_loop", ![s] = "bc_lock"]
            /\ loc' = [loc EXCEPT ![s] = [NoLoc EXCEPT !.data = [name |-> name],
                                                       !.msg = "SCENARIO " \o name,
                                                       !.ret = "sc_" \o name]]
            /\ UNCHANGED printed
       ELSE /\ s = "s1"
            /\ pc' = [pc EXCEPT !["ui"] = "ui_loop"]
            /\ printed' = Append(printed, "Unknown scenario: " \o name)
            /\ UNCHANGED <<events, loc>>
    /\ UNCHANGED <<running, lock, clients, sensor_data, packet_count, last_seq, net, now, gateway>>

ui_thread ==
    \/ ui_loop_head
    \/ control_device_set
    \/ control_device_event
    \/ send_control_all("ui")

(***************************************************************************)
(* The scenarios, each on a thread s of its own.                           *)
(***************************************************************************)
FireRoom == [fire1 |-> "1200400", fire2 |-> "1211371"]
FireDefault == [fire1 |-> 45 * Hundredths, fire2 |-> 42 * Hundredths]

\* lines 459, 472: base = smoke[-1] if smoke else 45.0 (42.0)
scenario_fire_base(s) ==
    /\ pc[s] \in {"sc_fire1", "sc_fire2"}
    /\ LET name == loc[s].data.name
           dq == sensor_data[FireRoom[name]].smoke
       IN  loc' = [loc EXCEPT ![s].tmp = IF dq # <<>> THEN dq[Len(dq)] ELSE FireDefault[name],
                              ![s].i = 0]
    /\ pc' = [pc EXCEPT ![s] = "f_head"]
    /\ UNCHANGED <<running, lock, shared, net, now, gateway, hist>>

\* lines 462, 475: val = base + min(25, i*0.8)
FireVal(base, i) == base + Min(25 * Hundredths, i * 80)
Val(s) == FireVal(loc[s].tmp, loc[s].i)
FireEnt(s) == FireRoom[loc[s].data.name]

\* lines 460-462: for i in range(30): if not self.running: break;
\* ts = time.time()
scenario_fire_head(s) ==
    /\ pc[s] = "f_head"
    /\ IF loc[s].i < FireTicks /\ running
       THEN /\ loc' = [loc EXCEPT ![s].ts = now]
            /\ pc' = [pc EXCEPT ![s] = "f_ts"]
       ELSE /\ pc' = [pc EXCEPT ![s] = "done"]
            /\ loc' = [loc EXCEPT ![s] = NoLoc]
    /\ UNCHANGED <<running, lock, shared, net, now, gateway, hist>>

\* lines 463, 476: add_room(ts, val, val*10, val*0.6), line 41
scenario_fire_ts(s) ==
    /\ pc[s] = "f_ts"
    /\ sensor_data' = add_ts(sensor_data, FireEnt(s), loc[s].ts)
    /\ pc' = [pc EXCEPT ![s] = "f_smoke"]
    /\ UNCHANGED <<running, lock, clients, events, packet_count, last_seq, net, now, gateway, loc, hist>>

\* add_room, line 42
scenario_fire_smoke(s) ==
    /\ pc[s] = "f_smoke"
    /\ sensor_data' = add_smoke(sensor_data, FireEnt(s), Val(s))
    /\ pc' = [pc EXCEPT ![s] = "f_co2"]
    /\ UNCHANGED <<running, lock, clients, events, packet_count, last_seq, net, now, gateway, loc, hist>>

\* add_room, line 43
scenario_fire_co2(s) ==
    /\ pc[s] = "f_co2"
    /\ sensor_data' = add_co2(sensor_data, FireEnt(s), Val(s) * 10)
    /\ pc' = [pc EXCEPT ![s] = "f_fire"]
    /\ UNCHANGED <<running, lock, clients, events, packet_count, last_seq, net, now, gateway, loc, hist>>

\* add_room, line 44
scenario_fire_fire(s) ==
    /\ pc[s] = "f_fire"
    /\ sensor_data' = add_fire(sensor_data, FireEnt(s), (Val(s) * 6) \div 10)
    /\ pc' = [pc EXCEPT ![s] = "f_al"]
    /\ UNCHANGED <<running, lock, clients, events, packet_count, last_seq, net, now, gateway, loc, hist>>

\* lines 464, 477: if val >= ALARM_THRESHOLD and not alarm_status
scenario_fire_alarm_test(s) ==
    /\ pc[s] = "f_al"
    /\ pc' = [pc EXCEPT ![s] = IF AlarmDue(Val(s), sensor_data[FireEnt(s)])
                               THEN "f_al_set" ELSE "f_sp"]
    /\ UNCHANGED <<running, lock, shared, net, now, gateway, loc, hist>>

\* lines 465, 478: alarm_status = True
scenario_fire_alarm_set(s) ==
    /\ pc[s] = "f_al_set"
    /\ sensor_data' = [sensor_data EXCEPT ![FireEnt(s)].alarm_status = TRUE]
    /\ pc' = [pc EXCEPT ![s] = "f_al_ev"]
    /\ UNCHANGED <<running, lock, clients, events, packet_count, last_seq, net, now, gateway, loc, hist>>

\* lines 465, 478: self.add_event("ALARM_<id> -> ON")
scenario_fire_alarm_event(s) ==
    /\ pc[s] = "f_al_ev"
    /\ events' = add_event(events, AlarmOn(FireEnt(s)))
    /\ pc' = [pc EXCEPT ![s] = "f_sp"]
    /\ UNCHANGED <<running, lock, clients, sensor_data, packet_count, last_seq, net, now, gateway,
                   loc, hist>>

\* lines 466, 479: if val >= SPRINKLER_THRESHOLD and not sprinkler_status;
\* lines 468, 481: time.sleep(1) ends the iteration
scenario_fire_sprinkler_test(s) ==
    /\ pc[s] = "f_sp"
    /\ IF SprinklerDue(Val(s), sensor_data[FireEnt(s)])
       THEN pc' = [pc EXCEPT ![s] = "f_sp_set"] /\ UNCHANGED loc
       ELSE /\ pc' = [pc EXCEPT ![s] = "f_head"]
            /\ loc' = [loc EXCEPT ![s].i = @ + 1, ![s].ts = 0]
    /\ UNCHANGED <<running, lock, shared, net, now, gateway, hist>>

\* lines 467, 480: sprinkler_status = True
scenario_fire_sprinkler_set(s) ==
    /\ pc[s] = "f_sp_set"
    /\ sensor_data' = [sensor_data EXCEPT ![FireEnt(s)].sprinkler_status = TRUE]
    /\ pc' = [pc EXCEPT ![s] = "f_sp_ev"]
    /\ UNCHANGED <<running, lock, clients, events, packet_count, last_seq, net, now, gateway, loc, hist>>

\* lines 467, 480: self.add_event("SPRINKLER_<id> -> ON"); then time.sleep(1)
scenario_fire_sprinkler_event(s) ==
    /\ pc[s] = "f_sp_ev"
    /\ events' = add_event(events, SprinklerOn(FireEnt(s)))
    /\ pc' = [pc EXCEPT ![s] = "f_head"]
    /\ loc' = [loc EXCEPT ![s].i = @ + 1, ![s].ts = 0]
    /\ UNCHANGED <<running, lock, clients, sensor_data, packet_count, last_seq, net, now, gateway, hist>>

scenario_fire(s) ==
    \/ scenario_fire_base(s)
    \/ scenario_fire_head(s)
    \/ scenario_fire_ts(s)
    \/ scenario_fire_smoke(s)
    \/ scenario_fire_co2(s)
    \/ scenario_fire_fire(s)
    \/ scenario_fire_alarm_test(s)
    \/ scenario_fire_alarm_set(s)
    \/ scenario_fire_alarm_event(s)
    \/ scenario_fire_sprinkler_test(s)
    \/ scenario_fire_sprinkler_set(s)
    \/ scenario_fire_sprinkler_event(s)

\* _scenario_normal visits the rooms, then the cars
NormalOrder == <<"1200400", "1211371", "car1", "car2">>
NormalEnt(s) == NormalOrder[loc[s].i]

\* after entity i: the next one, or the end of the scenario
NormalNext(s) ==
    IF loc[s].i < Len(NormalOrder)
    THEN /\ pc' = [pc EXCEPT ![s] = IF NormalOrder[loc[s].i + 1] \in Rooms
                                    THEN "n_al" ELSE "n_car"]
         /\ loc' = [loc EXCEPT ![s].i = @ + 1, ![s].prev = ""]
    ELSE /\ pc' = [pc EXCEPT ![s] = "done"]
         /\ loc' = [loc EXCEPT ![s] = NoLoc]

\* line 520: for room in ['1200400', '1211371']
scenario_normal_begin(s) ==
    /\ pc[s] = "sc_normal"
    /\ pc' = [pc EXCEPT ![s] = "n_al"]
    /\ loc' = [loc EXCEPT ![s].i = 1]
    /\ UNCHANGED <<running, lock, shared, net, now, gateway, hist>>

\* line 522: if d.alarm_status
scenario_normal_alarm_test(s) ==
    /\ pc[s] = "n_al"
    /\ pc' = [pc EXCEPT ![s] = IF sensor_data[NormalEnt(s)].alarm_status
                               THEN "n_al_clr" ELSE "n_sp"]
    /\ UNCHANGED <<running, lock, shared, net, now, gateway, loc, hist>>

\* line 523: d.alarm_status = False
scenario_normal_alarm_clear(s) ==
    /\ pc[s] = "n_al_clr"
    /\ sensor_data' = [sensor_data EXCEPT ![NormalEnt(s)].alarm_status = FALSE]
    /\ pc' = [pc EXCEPT ![s] = "n_al_ev"]
    /\ UNCHANGED <<running, lock, clients, events, packet_count, last_seq, net, now, gateway, loc, hist>>

\* line 523: self.add_event("ALARM_<room> -> OFF")
scenario_normal_alarm_event(s) ==
    /\ pc[s] = "n_al_ev"
    /\ events' = add_event(events, "ALARM_" \o NormalEnt(s) \o " -> OFF")
    /\ pc' = [pc EXCEPT ![s] = "n_sp"]
    /\ UNCHANGED <<running, lock, clients, sensor_data, packet_count, last_seq, net, now, gateway,
                   loc, hist>>

\* line 524: if d.sprinkler_status
scenario_normal_sprinkler_test(s) ==
    /\ pc[s] = "n_sp"
    /\ IF sensor_data[NormalEnt(s)].sprinkler_status
       THEN pc' = [pc EXCEPT ![s] = "n_sp_clr"] /\ UNCHANGED loc
       ELSE NormalNext(s)
    /\ UNCHANGED <<running, lock, shared, net, now, gateway, hist>>

\* line 525: d.sprinkler_status = False
scenario_normal_sprinkler_clear(s) ==
    /\ pc[s] = "n_sp_clr"
    /\ sensor_data' = [sensor_data EXCEPT ![NormalEnt(s)].sprinkler_status = FALSE]
    /\ pc' = [pc EXCEPT ![s] = "n_sp_ev"]
    /\ UNCHANGED <<running, lock, clients, events, packet_count, last_seq, net, now, gateway, loc, hist>>

\* line 525: self.add_event("SPRINKLER_<room> -> OFF")
scenario_normal_sprinkler_event(s) ==
    /\ pc[s] = "n_sp_ev"
    /\ events' = add_event(events, "SPRINKLER_" \o NormalEnt(s) \o " -> OFF")
    /\ NormalNext(s)
    /\ UNCHANGED <<running, lock, clients, sensor_data, packet_count, last_seq, net, now, gateway, hist>>

\* lines 527-528: old = car_status; if old != "PARKED"
scenario_normal_car_test(s) ==
    /\ pc[s] = "n_car"
    /\ IF sensor_data[NormalEnt(s)].car_status # "PARKED"
       THEN /\ pc' = [pc EXCEPT ![s] = "n_car_set"]
            /\ loc' = [loc EXCEPT ![s].prev = sensor_data[NormalEnt(s)].car_status]
       ELSE NormalNext(s)
    /\ UNCHANGED <<running, lock, shared, net, now, gateway, hist>>

\* line 529: car_status = "PARKED"
scenario_normal_car_set(s) ==
    /\ pc[s] = "n_car_set"
    /\ sensor_data' = [sensor_data EXCEPT ![NormalEnt(s)].car_status = "PARKED"]
    /\ pc' = [pc EXCEPT ![s] = "n_car_ev"]
    /\ UNCHANGED <<running, lock, clients, events, packet_count, last_seq, net, now, gateway, loc, hist>>

\* line 529: self.add_event("<CAR> <old> -> PARKED")
scenario_normal_car_event(s) ==
    /\ pc[s] = "n_car_ev"
    /\ events' = add_event(events, Upper(NormalEnt(s)) \o " " \o loc[s].prev \o " -> PARKED")
    /\ NormalNext(s)
    /\ UNCHANGED <<running, lock, clients, sensor_data, packet_count, last_seq, net, now, gateway, hist>>

scenario_normal(s) ==
    \/ scenario_normal_begin(s)
    \/ scenario_normal_alarm_test(s)
    \/ scenario_normal_alarm_clear(s)
    \/ scenario_normal_alarm_event(s)
    \/ scenario_normal_sprinkler_test(s)
    \/ scenario_normal_sprinkler_clear(s)
    \/ scenario_normal_sprinkler_event(s)
    \/ scenario_normal_car_test(s)
    \/ scenario_normal_car_set(s)
    \/ scenario_normal_car_event(s)

(***************************************************************************)
(* One connection, read in chunks of any size.                             *)
(***************************************************************************)
FrameAddr == "a1"
FrameLines == {ObjLine("hb"), ObjLine("dHi"), <<"x">>, <<"[", "]">>, <<"x", "L", "C">>}

NextFrame ==
    \/ start
    \/ Connect(FrameAddr)
    \/ accept_thread
    \/ \E l \in FrameLines : Send(FrameAddr, l)
    \/ PeerClose(FrameAddr)
    \/ PeerReset(FrameAddr)
    \/ \E n \in 1..(MaxOps * 4) : client_loop_recv(FrameAddr, n)
    \/ client_thread(FrameAddr)
    \/ client_loop_finally(FrameAddr)
    \/ on_data_room(FrameAddr)

SpecFrame == Init /\ [][NextFrame]_vars

(***************************************************************************)
(* The server with one gateway, the operator and the scenarios.            *)
(***************************************************************************)
\* The server is started and has accepted and registered one connection.
InitServing ==
    /\ running = TRUE
    /\ lock = "free"
    /\ clients = [a \in Addr |-> IF a = "a1" THEN [in |-> TRUE, last |-> 0, gw |-> "UNKNOWN"]
                                 ELSE NotRegistered]
    /\ sensor_data = [e \in Entities |-> SensorDataInit]
    /\ events = <<"Starting cloud server ...">>
    /\ packet_count = 0
    /\ last_seq = 0
    /\ sock = [a \in Addr \cup {"srv"} |-> IF a \in {"a1", "srv"} THEN "open" ELSE "none"]
    /\ wire = [a \in Addr |-> <<>>]
    /\ peer = [a \in Addr |-> IF a = "a1" THEN "open" ELSE "none"]
    /\ outbox = [a \in Addr |-> <<>>]
    /\ backlog = {}
    /\ now = 0
    /\ pc = [t \in Threads |->
               CASE t = "main" -> "main_loop"
                 [] t = "acc" -> "accept"
                 [] t = "ui" -> "ui_loop"
                 [] t = "a1" -> "loop"
                 [] OTHER -> "none"]
    /\ loc = [t \in Threads |-> NoLoc]
    /\ sent = [a \in Addr |-> <<>>]
    /\ dispatched = [a \in Addr |-> <<>>]
    /\ ncmd = 0
    /\ printed = <<>>
    /\ GatewayInit

\* the gateway writes its next line once the server has read the last one
SendNext(a, line) ==
    /\ pc[a] \in {"loop", "recv"}
    /\ wire[a] = <<>>
    /\ loc[a].buffer = <<>>
    /\ Send(a, line)

IngestLines == {ObjLine("dLo"), ObjLine("dHi")}

Next ==
    \/ \E l \in IngestLines : SendNext("a1", l)
    \/ client_loop_recv("a1", Max(1, Len(wire["a1"])))
    \/ client_thread("a1")
    \/ on_data_room("a1")
    \/ ui_thread
    \/ process_command_control("ALARM_", "1200400", "off")
    \/ process_command_control("sprink_", "1200400", "off")
    \/ \E name \in {"fire1", "normal"}, s \in {"s1"} : process_command_scenario(name, s)
    \/ \E s \in {"s1"} : send_control_all(s) \/ scenario_fire(s) \/ scenario_normal(s)

Spec == InitServing /\ [][Next]_vars

(***************************************************************************)
(* Properties of the latches and of the sample sequences.                  *)
(***************************************************************************)
Alarm(r) == sensor_data[r].alarm_status
Sprinkler(r) == sensor_data[r].sprinkler_status

\* the step is the operator's `control <dev><r> <state>` writing the latch
ControlWrites(dev, r, state) ==
    /\ pc["ui"] = "cd_set" /\ pc'["ui"] = "cd_ev"
    /\ loc["ui"].data.dev = dev /\ loc["ui"].data.room = r /\ loc["ui"].data.state = state

\* the step is the normal scenario clearing the latch of r
NormalClears(from, r) ==
    \E s \in ScenThreads : pc[s] = from /\ pc'[s] # from /\ NormalEnt(s) = r

\* the step ends the evaluation of the alarm latch of r for a sample at or
\* over the threshold, in _on_data or in a fire scenario
AlarmEvaluated(r) ==
    \/ \E a \in Addr :
          /\ pc[a] \in {"r_al", "r_al_set"} /\ pc'[a] \in {"r_al_ev", "r_sp"}
          /\ Ent(a) = r /\ Smoke(a) >= ALARM_THRESHOLD * Hundredths
    \/ \E s \in ScenThreads :
          /\ pc[s] \in {"f_al", "f_al_set"} /\ pc'[s] \in {"f_al_ev", "f_sp"}
          /\ FireEnt(s) = r /\ Val(s) >= ALARM_THRESHOLD * Hundredths

\* C1: a sample at or over ALARM_THRESHOLD leaves the alarm latch of its room
\* set, and the latch is reset only by `control ALARM_<id> off` or by the
\* normal scenario, never by an ingest.
C1_AlarmLatches ==
    [][\A r \in Rooms :
          /\ AlarmEvaluated(r) => Alarm(r)'
          /\ (Alarm(r) /\ ~Alarm(r)') =>
                (ControlWrites("ALARM_", r, FALSE) \/ NormalClears("n_al_clr", r))]_vars

\* the alarm of room 1200400 is set, a sample under the threshold has been
\* ingested after the one that set it, and the gateway's thread is idle
C1_Witness ==
    LET sd == sensor_data["1200400"] IN
    /\ sd.alarm_status
    /\ pc["a1"] = "loop" /\ packet_count = 2
    /\ Len(sd.smoke) = 2
    /\ sd.smoke[1] >= ALARM_THRESHOLD * Hundredths
    /\ sd.smoke[2] < ALARM_THRESHOLD * Hundredths

\* the step ends the evaluation of the sprinkler latch of r for a sample at
\* or over the threshold
SprinklerEvaluated(r) ==
    \/ \E a \in Addr :
          /\ pc[a] \in {"r_sp", "r_sp_set"} /\ pc'[a] \notin {"r_sp", "r_sp_set"}
          /\ Ent(a) = r /\ Smoke(a) >= SPRINKLER_THRESHOLD * Hundredths
    \/ \E s \in ScenThreads :
          /\ pc[s] \in {"f_sp", "f_sp_set"} /\ pc'[s] \notin {"f_sp", "f_sp_set"}
          /\ FireEnt(s) = r /\ Val(s) >= SPRINKLER_THRESHOLD * Hundredths

\* the step is an ingest of a sample at or over SPRINKLER_THRESHOLD writing
\* the sprinkler latch of r
SprinklerIngestWrites(r) ==
    \/ \E a \in Addr :
          /\ pc[a] = "r_sp_set" /\ pc'[a] = "r_sp_ev" /\ Ent(a) = r
          /\ Smoke(a) >= SPRINKLER_THRESHOLD * Hundredths
    \/ \E s \in ScenThreads :
          /\ pc[s] = "f_sp_set" /\ pc'[s] = "f_sp_ev" /\ FireEnt(s) = r
          /\ Val(s) >= SPRINKLER_THRESHOLD * Hundredths

\* C2: a sample at or over SPRINKLER_THRESHOLD leaves the sprinkler latch of
\* its room set whatever the alarm latch is, and no ingest of a sample under
\* the threshold sets it.
C2_SprinklerLatches ==
    [][\A r \in Rooms :
          /\ SprinklerEvaluated(r) => Sprinkler(r)'
          /\ (~Sprinkler(r) /\ Sprinkler(r)') =>
                (SprinklerIngestWrites(r) \/ ControlWrites("SPRINK_", r, TRUE))]_vars

\* an ingest has just set the sprinkler of room 1200400 while its alarm is off
C2_Witness ==
    /\ pc["a1"] = "r_sp_ev" /\ Ent("a1") = "1200400"
    /\ Sprinkler("1200400") /\ ~Alarm("1200400")

Series == {"timestamps", "smoke", "co2", "fire", "car_temp"}

\* s2 is s with one element appended, the oldest evicted when s is full
AppendedTo(s, s2) ==
    /\ s2 # <<>>
    /\ s2 = IF Len(s) < MaxPoints THEN Append(s, s2[Len(s2)])
            ELSE Append(Tail(s), s2[Len(s2)])

\* C3: no sample sequence is ever longer than the capacity, and a step
\* changes a sequence only by appending one sample, evicting exactly the
\* oldest one when the sequence is full.
C3_BoundedEviction ==
    [][\A e \in Entities : \A f \in Series :
          /\ Len(sensor_data'[e][f]) <= MaxPoints
          /\ \/ sensor_data'[e][f] = sensor_data[e][f]
             \/ AppendedTo(sensor_data[e][f], sensor_data'[e][f])]_vars

\* room 1200400 has taken one DATA sample and then the samples of a whole
\* fire scenario: its sequences are full and the DATA sample is evicted
C3_Witness ==
    LET sd == sensor_data["1200400"] IN
    /\ packet_count = 1 /\ pc["a1"] = "loop" /\ pc["s1"] = "done"
    /\ Len(sd.smoke) = MaxPoints /\ Len(sd.co2) = MaxPoints
    /\ \A i \in 1..Len(sd.co2) : sd.co2[i] = sd.smoke[i] * 10
    /\ sd.smoke[1] < sd.smoke[MaxPoints]

\* the (smoke, co2, fire) samples that a DATA message of the model carries
\* for room r
DataSamples(r) ==
    {<<Get(JsonObj[b].sensors, SmokeKey[r], 0), Get(JsonObj[b].sensors, Co2Key[r], 0),
       Get(JsonObj[b].sensors, FireKey[r], 0)>> :
        b \in {c \in DOMAIN JsonObj : /\ JsonObj[c].type = "DATA"
                                      /\ "sensors" \in DOMAIN JsonObj[c]
                                      /\ KeysOf[r] \cap DOMAIN JsonObj[c].sensors # {}}}

\* a sample as one add_room call writes it: from a DATA message, or the
\* (val, val*10, val*0.6) of a fire scenario
WholeSample(r, smoke, co2, fire) ==
    \/ <<smoke, co2, fire>> \in DataSamples(r)
    \/ co2 = smoke * 10 /\ fire = (smoke * 6) \div 10

\* thread t is inside add_room for room r
InAddRoom(t, r) ==
    \/ t \in Addr /\ pc[t] \in {"r_smoke", "r_co2", "r_fire"} /\ Ent(t) = r
    \/ t \in ScenThreads /\ pc[t] \in {"f_smoke", "f_co2", "f_fire"} /\ FireEnt(t) = r

\* C7: whenever no thread is inside add_room for a room, that room's sample
\* sequences are within the capacity, have one length, and hold at each index
\* the values of one append: a scenario running next to DATA ingestion never
\* leaves a partial or crossed entry.
C7_SamplesWhole ==
    \A r \in Rooms :
        (\A t \in Threads : ~InAddRoom(t, r)) =>
            LET sd == sensor_data[r] IN
            /\ Len(sd.smoke) <= MaxPoints
            /\ Len(sd.timestamps) = Len(sd.smoke)
            /\ Len(sd.co2) = Len(sd.smoke)
            /\ Len(sd.fire) = Len(sd.smoke)
            /\ \A i \in 1..Len(sd.smoke) : WholeSample(r, sd.smoke[i], sd.co2[i], sd.fire[i])

\* the labels whose step reads or writes clients, sensor_data, events,
\* packet_count or last_seq
SharedAccess ==
    {"acc_reg", "pm_upd", "fin_pop", "bc_send",
     "d_seq_r", "d_seq_w", "d_cnt_r", "d_cnt_w",
     "r_ts", "r_smoke", "r_co2", "r_fire", "r_al", "r_al_set", "r_al_ev",
     "r_sp", "r_sp_set", "r_sp_ev", "c_prev", "c_ts", "c_temp", "c_status", "c_ev",
     "cd_set", "cd_ev", "sc_fire1", "sc_fire2",
     "f_ts", "f_smoke", "f_co2", "f_fire", "f_al", "f_al_set", "f_al_ev",
     "f_sp", "f_sp_set", "f_sp_ev",
     "n_al", "n_al_clr", "n_al_ev", "n_sp", "n_sp_clr", "n_sp_ev",
     "n_car", "n_car_set", "n_car_ev"}

\* thread t is between the first and the last access of one read-modify-write
\* of the fields of entity e
Updating(t, e) ==
    \/ /\ t \in Addr
       /\ pc[t] \in {"r_smoke", "r_co2", "r_fire", "r_al", "r_al_set", "r_sp", "r_sp_set",
                     "c_ts", "c_temp", "c_status"}
       /\ Ent(t) = e
    \/ /\ t \in ScenThreads
       /\ pc[t] \in {"f_smoke", "f_co2", "f_fire", "f_al", "f_al_set", "f_sp", "f_sp_set"}
       /\ FireEnt(t) = e
    \/ /\ t \in ScenThreads
       /\ pc[t] \in {"n_al_clr", "n_sp_clr", "n_car_set"}
       /\ NormalEnt(t) = e

\* C9: a thread about to read or write shared state holds the lock, and no
\* two threads are at once inside a read-modify-write of one entity's fields.
C9_AllUnderLock ==
    /\ \A t \in Threads : pc[t] \in SharedAccess => lock = t
    /\ \A e \in Entities : \A t1, t2 \in Threads :
          (Updating(t1, e) /\ Updating(t2, e)) => t1 = t2

(***************************************************************************)
(* Properties of one connection's handler.                                 *)
(***************************************************************************)
\* the lines the peer of a wrote, as text
Orig(a) == [i \in 1..Len(sent[a]) |-> decode(sent[a][i])]

\* every byte the peer of a wrote has been read (none was lost to a reset)
\* and the handler is back at its loop
Drained(a) == wire[a] = <<>> /\ peer[a] \in {"open", "eof"} /\ pc[a] \in {"loop", "recv"}

\* C4: the lines handed to _process_message are the lines the peer wrote, each
\* equal to the original and in the original order, whatever the chunking;
\* once every byte has been read and the handler is back at its loop, all of
\* them have been handed over exactly once.
C4_FramingExact ==
    \A a \in Addr :
        /\ IsPrefix(dispatched[a], Orig(a))
        /\ Drained(a) => dispatched[a] = Orig(a)

\* C5: the step of _process_message on a line that is not valid JSON leaves
\* the socket open, the registry, the entities, the event log, packet_count
\* and last_seq unchanged, and the handler in its loop with the rest of its
\* buffer, so that later lines are still processed.
C5_MalformedDropped ==
    [][\A a \in Addr :
          (pc[a] = "parse" /\ pc'[a] # "parse" /\ ~json_loads(loc[a].line).ok) =>
              /\ pc'[a] = "split"
              /\ sock[a] = "open" /\ sock'[a] = "open"
              /\ clients[a].in /\ clients'[a].in
              /\ UNCHANGED shared
              /\ loc'[a].buffer = loc[a].buffer]_vars

\* a line that is not JSON was handed over first, and the DATA line after it
\* on the same connection has been ingested
C5_Witness ==
    /\ Len(dispatched["a1"]) = 2
    /\ ~json_loads(dispatched["a1"][1]).ok
    /\ dispatched["a1"][2] = ObjLine("dHi")
    /\ packet_count = 1 /\ last_seq = 3
    /\ pc["a1"] = "loop" /\ sock["a1"] = "open" /\ clients["a1"].in

\* C10: a read that times out leaves the handler in its loop with the session
\* registered and the socket open; a read that returns EOF or raises any
\* other error takes the handler to its finally block; and a handler that
\* has ended has closed its socket and removed its session.
C10_ReadOutcomes ==
    /\ [](\A a \in Addr : pc[a] = "closed" => (sock[a] = "closed" /\ ~clients[a].in))
    /\ [][\A a \in Addr :
             (pc[a] = "recv" /\ pc'[a] # "recv") =>
                 IF RecvRaises(a) \/ (wire[a] = <<>> /\ peer[a] \in {"eof", "dead"})
                 THEN pc'[a] = "finally"
                 ELSE (wire[a] = <<>>) =>
                          /\ pc'[a] = "loop"
                          /\ clients'[a] = clients[a] /\ clients[a].in
                          /\ sock'[a] = "open"]_vars

(***************************************************************************)
(* The operator's control commands, next to one gateway's DATA.            *)
(***************************************************************************)
ControlPrefixes == {"ALARM_", "sprink_", "FAN_"}
ControlIds == {"1200400", "car1", "7"}
ControlStates == {"on", "off"}
UnknownScenarios == {"fire9"}

NextControl ==
    \/ SendNext("a1", ObjLine("dHi"))
    \/ client_loop_recv("a1", Max(1, Len(wire["a1"])))
    \/ client_thread("a1")
    \/ on_data_room("a1")
    \/ ui_loop_head
    \/ \E prefix \in ControlPrefixes, id \in ControlIds, state \in ControlStates :
          process_command_control(prefix, id, state)
    \/ control_device_set
    \/ control_device_event
    \/ \E name \in UnknownScenarios : process_command_scenario(name, "s1")

SpecControl == InitServing /\ [][NextControl]_vars

\* the deques of entity e
SamplesOf(sd, e) ==
    <<sd[e].timestamps, sd[e].smoke, sd[e].co2, sd[e].fire, sd[e].car_temp>>

\* C6: `control <ALARM_|SPRINK_><id> on|off` for the id of any entity of the
\* store goes on to write the addressed latch of that entity; the write
\* sets it to the requested value whatever its value and the samples were
\* and leaves the other latch and the samples alone; and exactly one Event is
\* appended for it.
C6_ControlOverrides ==
    [][/\ \A dev \in {"ALARM_", "SPRINK_"}, id \in Entities, state \in ControlStates :
             process_command_control(dev, id, state) =>
                 /\ pc'["ui"] = "cd_set"
                 /\ loc'["ui"].data = [dev |-> dev, room |-> id, state |-> (state = "on")]
       /\ (pc["ui"] = "cd_set" /\ pc'["ui"] # "cd_set") =>
             LET d == loc["ui"].data IN
             /\ pc'["ui"] = "cd_ev"
             /\ IF d.dev = "ALARM_"
                THEN /\ sensor_data'[d.room].alarm_status = d.state
                     /\ sensor_data'[d.room].sprinkler_status =
                            sensor_data[d.room].sprinkler_status
                ELSE /\ sensor_data'[d.room].sprinkler_status = d.state
                     /\ sensor_data'[d.room].alarm_status = sensor_data[d.room].alarm_status
             /\ SamplesOf(sensor_data', d.room) = SamplesOf(sensor_data, d.room)
             /\ events' = events
       /\ (pc["ui"] = "cd_ev" /\ pc'["ui"] # "cd_ev") =>
             /\ pc'["ui"] = "ui_loop"
             /\ Len(events') = Len(events) + 1
             /\ sensor_data' = sensor_data]_vars

\* the command changed nothing, started no thread and sent no message
CommandWithoutEffect ==
    /\ UNCHANGED <<running, shared, outbox, sock, loc>>
    /\ \A t \in Threads \ {"ui"} : pc'[t] = pc[t]
    /\ pc'["ui"] = "ui_loop"

\* C14: a command naming an unknown scenario, a device prefix other than
\* ALARM_ and SPRINK_, or a known prefix with an id that is no entity of the
\* store, changes no state, starts no thread, sends no CONTROL message, and
\* prints one message to the operator.
C14_CommandErrorsReported ==
    [][/\ \A name \in UnknownScenarios :
             process_command_scenario(name, "s1") =>
                 (CommandWithoutEffect /\ Len(printed') = Len(printed) + 1)
       /\ \A prefix \in ControlPrefixes, id \in ControlIds, state \in ControlStates :
             (Upper(prefix) \notin {"ALARM_", "SPRINK_"} \/ id \notin Entities) =>
                 (process_command_control(prefix, id, state) =>
                     (CommandWithoutEffect /\ Len(printed') = Len(printed) + 1))]_vars

(***************************************************************************)
(* Broadcasts to three silent gateways, any of which may have gone away.   *)
(***************************************************************************)
NextBroadcast ==
    \/ start
    \/ \E a \in Addr : Connect(a)
    \/ accept_thread
    \/ \E a \in Addr : PeerReset(a)
    \/ \E a \in Addr : client_loop_head(a)
    \/ \E a \in Addr : client_loop_recv(a, 1)
    \/ \E a \in Addr : client_loop_finally(a)
    \/ ui_loop_head
    \/ \E command \in {"PAUSE", "RESUME"} : process_command_gw(command)
    \/ send_control_all("ui")

SpecBroadcast == Init /\ [][NextBroadcast]_vars

\* thread t makes the write of its broadcast to the next session in this step
BroadcastWrite(t) ==
    /\ pc[t] = "bc_send" /\ loc[t].todo # <<>>
    /\ loc'[t].todo = Tail(loc[t].todo)

\* C8: a broadcast lists every session of the registry; each of its writes
\* either succeeds, and then the message is delivered and the session stays,
\* or fails, and then that session is removed from the registry; in both
\* cases the other sessions are left as they were and the broadcast goes on.
C8_BroadcastIsolatesFailure ==
    [][\A t \in {"ui"} \cup ScenThreads :
          /\ (pc[t] = "bc_lock" /\ pc'[t] = "bc_send") => loc'[t].todo = Items(clients)
          /\ BroadcastWrite(t) =>
                LET a == Head(loc[t].todo) IN
                /\ IF SendRaises(a)
                   THEN ~clients'[a].in
                   ELSE /\ outbox'[a] = Append(outbox[a], loc[t].msg)
                        /\ clients'[a] = clients[a]
                /\ \A b \in Addr \ {a} : clients'[b] = clients[b] /\ outbox'[b] = outbox[b]
                /\ pc'[t] = "bc_send"]_vars

(***************************************************************************)
(* Events of the latches.                                                  *)
(***************************************************************************)
\* thread t takes, in this step, the assignment `<latch> = True` of an ingest
\* for room r: from is the label of the assignment in _on_data, ffrom in a
\* fire scenario
SetsLatch(t, r, from, ffrom) ==
    \/ t \in Addr /\ pc[t] = from /\ pc'[t] # from /\ Ent(t) = r
    \/ t \in ScenThreads /\ pc[t] = ffrom /\ pc'[t] # ffrom /\ FireEnt(t) = r

\* thread t ends, in this step, the evaluation of a latch without assigning it
SkipsLatch(t, from, to, ffrom, fto) ==
    \/ t \in Addr /\ pc[t] = from /\ pc'[t] \notin {from, to}
    \/ t \in ScenThreads /\ pc[t] = ffrom /\ pc'[t] \notin {ffrom, fto}

\* C11: an ingest appends an ON Event only for a latch that it has itself
\* taken from false to true, and then exactly one; an ingest that does not
\* change the latch appends none, also when several threads evaluate the
\* threshold of one room at the same time.
C11_OneEventPerCrossing ==
    [][\A t \in Addr \cup ScenThreads :
          /\ \A r \in Rooms :
                /\ SetsLatch(t, r, "r_al_set", "f_al_set") => (~Alarm(r) /\ Alarm(r)')
                /\ SetsLatch(t, r, "r_sp_set", "f_sp_set") => (~Sprinkler(r) /\ Sprinkler(r)')
                /\ (SetsLatch(t, r, "r_al_ev", "f_al_ev") \/ SetsLatch(t, r, "r_sp_ev", "f_sp_ev"))
                      => Len(events') = Len(events) + 1
          /\ (SkipsLatch(t, "r_al", "r_al_set", "f_al", "f_al_set")
                \/ SkipsLatch(t, "r_sp", "r_sp_set", "f_sp", "f_sp_set"))
                => events' = events]_vars

(***************************************************************************)
(* Two sessions and their bookkeeping, with the clock running.             *)
(***************************************************************************)
SessionAddrs == {"a1", "a2"}
SessionLines ==
    {ObjLine("hb"), ObjLine("hb2"), ObjLine("hbE"), ObjLine("hbN"), ObjLine("st"),
     ObjLine("dHi")}

NextSession ==
    \/ start
    \/ \E a \in SessionAddrs : Connect(a)
    \/ accept_thread
    \/ Tick
    \/ \E a \in SessionAddrs, l \in SessionLines : SendNext(a, l)
    \/ \E a \in SessionAddrs : client_loop_recv(a, Max(1, Len(wire[a])))
    \/ \E a \in SessionAddrs : client_thread(a)
    \/ \E a \in SessionAddrs : on_data_room(a)

SpecSession == Init /\ [][NextSession]_vars

\* thread a makes, in this step, the registry update of _process_message for
\* a decoded JSON object
UpdatesSession(a) ==
    /\ pc[a] = "pm_upd" /\ pc'[a] # "pm_upd"
    /\ loc[a].data.type # "nonobject"
    /\ clients[a].in

\* C12: a session is UNKNOWN from accept until its first message; every
\* decoded message sets its last-activity time; the first non-empty
\* gateway_id becomes its identity and later messages, whatever their
\* gateway_id, leave the identity as it is.
C12_FirstIdentityWins ==
    /\ [](\A a \in Addr : (clients[a].in /\ dispatched[a] = <<>>) => clients[a].gw = "UNKNOWN")
    /\ [][\A a \in Addr :
             UpdatesSession(a) =>
                 LET g == Get(loc[a].data, "gateway_id", "") IN
                 /\ clients'[a].last = now
                 /\ clients'[a].gw = IF clients[a].gw = "UNKNOWN" /\ g # ""
                                     THEN g ELSE clients[a].gw]_vars

(***************************************************************************)
(* CloudServer._scenario_car1 and _scenario_car2, on a thread s.           *)
(***************************************************************************)
CarOf(s) == loc[s].data.name

\* lines 496, 508: car_status = "RUNNING"
scenario_car_begin(s) ==
    /\ pc[s] \in {"sc_car1", "sc_car2"}
    /\ sensor_data' = [sensor_data EXCEPT ![CarOf(s)].car_status = "RUNNING"]
    /\ pc' = [pc EXCEPT ![s] = "k_ev0"]
    /\ UNCHANGED <<running, lock, clients, events, packet_count, last_seq, net, now, gateway, loc, hist>>

\* lines 496, 508: self.add_event("Car1 PARKED -> RUNNING")
scenario_car_begin_event(s) ==
    /\ pc[s] = "k_ev0"
    /\ events' = add_event(events, CarEvent(CarOf(s), "PARKED", "RUNNING"))
    /\ pc' = [pc EXCEPT ![s] = "k_base"]
    /\ UNCHANGED <<running, lock, clients, sensor_data, packet_count, last_seq, net, now, gateway,
                   loc, hist>>

\* lines 497, 509: base = car_temp[-1] if car_temp else 25.0
scenario_car_base(s) ==
    /\ pc[s] = "k_base"
    /\ LET dq == sensor_data[CarOf(s)].car_temp IN
       loc' = [loc EXCEPT ![s].tmp = IF dq # <<>> THEN dq[Len(dq)] ELSE 25 * Hundredths,
                          ![s].i = 0]
    /\ pc' = [pc EXCEPT ![s] = "k_head"]
    /\ UNCHANGED <<running, lock, shared, net, now, gateway, hist>>

\* lines 500, 512: temp = base + min(60, i*3)
CarTemp(base, i) == base + Min(60 * Hundredths, i * 3 * Hundredths)

\* lines 498-500: for i in range(20): if not self.running: break;
\* ts = time.time()
scenario_car_head(s) ==
    /\ pc[s] = "k_head"
    /\ IF loc[s].i < CarTicks /\ running
       THEN /\ loc' = [loc EXCEPT ![s].ts = now]
            /\ pc' = [pc EXCEPT ![s] = "k_ts"]
       ELSE /\ pc' = [pc EXCEPT ![s] = "k_end"]
            /\ UNCHANGED loc
    /\ UNCHANGED <<running, lock, shared, net, now, gateway, hist>>

\* lines 501, 513: add_car, line 47
scenario_car_ts(s) ==
    /\ pc[s] = "k_ts"
    /\ sensor_data' = add_ts(sensor_data, CarOf(s), loc[s].ts)
    /\ pc' = [pc EXCEPT ![s] = "k_temp"]
    /\ UNCHANGED <<running, lock, clients, events, packet_count, last_seq, net, now, gateway, loc, hist>>

\* add_car, line 48
scenario_car_temp(s) ==
    /\ pc[s] = "k_temp"
    /\ sensor_data' = add_temp(sensor_data, CarOf(s), CarTemp(loc[s].tmp, loc[s].i))
    /\ pc' = [pc EXCEPT ![s] = "k_status"]
    /\ UNCHANGED <<running, lock, clients, events, packet_count, last_seq, net, now, gateway, loc, hist>>

\* add_car, lines 49-50: car_status = "RUNNING"; line 502: time.sleep(1)
scenario_car_status(s) ==
    /\ pc[s] = "k_status"
    /\ sensor_data' = [sensor_data EXCEPT ![CarOf(s)].car_status = "RUNNING"]
    /\ loc' = [loc EXCEPT ![s].i = @ + 1, ![s].ts = 0]
    /\ pc' = [pc EXCEPT ![s] = "k_head"]
    /\ UNCHANGED <<running, lock, clients, events, packet_count, last_seq, net, now, gateway, hist>>

\* lines 503-504, 515-516: if self.running: car_status = "OVERHEATING"
scenario_car_end(s) ==
    /\ pc[s] = "k_end"
    /\ IF running
       THEN /\ sensor_data' = [sensor_data EXCEPT ![CarOf(s)].car_status = "OVERHEATING"]
            /\ pc' = [pc EXCEPT ![s] = "k_ev1"]
            /\ UNCHANGED loc
       ELSE /\ pc' = [pc EXCEPT ![s] = "done"]
            /\ loc' = [loc EXCEPT ![s] = NoLoc]
            /\ UNCHANGED sensor_data
    /\ UNCHANGED <<running, lock, clients, events, packet_count, last_seq, net, now, gateway, hist>>

\* lines 504, 516: self.add_event("Car1 RUNNING -> OVERHEATING")
scenario_car_end_event(s) ==
    /\ pc[s] = "k_ev1"
    /\ events' = add_event(events, CarEvent(CarOf(s), "RUNNING", "OVERHEATING"))
    /\ pc' = [pc EXCEPT ![s] = "done"]
    /\ loc' = [loc EXCEPT ![s] = NoLoc]
    /\ UNCHANGED <<running, lock, clients, sensor_data, packet_count, last_seq, net, now, gateway, hist>>

scenario_car(s) ==
    \/ scenario_car_begin(s)
    \/ scenario_car_begin_event(s)
    \/ scenario_car_base(s)
    \/ scenario_car_head(s)
    \/ scenario_car_ts(s)
    \/ scenario_car_temp(s)
    \/ scenario_car_status(s)
    \/ scenario_car_end(s)
    \/ scenario_car_end_event(s)

\* the steps of _on_data before its sections
on_data_head(a) ==
    \/ on_data_seq_read(a)
    \/ on_data_seq_write(a)
    \/ on_data_count_read(a)
    \/ on_data_count_write(a)

(***************************************************************************)
(* One gateway's car DATA, next to the car1 scenario.                      *)
(***************************************************************************)
CarLines == {ObjLine("dCar"), ObjLine("dCarP")}

NextCars ==
    \/ \E l \in CarLines : SendNext("a1", l)
    \/ client_loop_recv("a1", Max(1, Len(wire["a1"])))
    \/ client_thread("a1")
    \/ on_data_head("a1")
    \/ on_data_car("a1")
    \/ ui_loop_head
    \/ process_command_scenario("car1", "s1")
    \/ send_control_all("s1")
    \/ scenario_car("s1")

SpecCars == InitServing /\ [][NextCars]_vars

\* thread t writes, in this step, the status of car c
WritesCarStatus(t, c) ==
    \/ t \in Addr /\ pc[t] = "c_status" /\ pc'[t] # "c_status" /\ Ent(t) = c
    \/ /\ t \in ScenThreads
       /\ \/ pc[t] \in {"sc_car1", "sc_car2"} /\ pc'[t] = "k_ev0"
          \/ pc[t] = "k_status" /\ pc'[t] = "k_head"
          \/ pc[t] = "k_end" /\ pc'[t] = "k_ev1"
       /\ CarOf(t) = c
    \/ t \in ScenThreads /\ pc[t] = "n_car_set" /\ pc'[t] = "n_car_ev" /\ NormalEnt(t) = c

\* the (previous, new) status that the Event thread t is about to append
\* names, or <<>> when it is not about to append one
PendingCarEvent(t) ==
    CASE t \in Addr /\ pc[t] = "c_ev" -> <<loc[t].prev, Status(t)>>
      [] t \in ScenThreads /\ pc[t] = "k_ev0" -> <<"PARKED", "RUNNING">>
      [] t \in ScenThreads /\ pc[t] = "k_ev1" -> <<"RUNNING", "OVERHEATING">>
      [] t \in ScenThreads /\ pc[t] = "n_car_ev" -> <<loc[t].prev, "PARKED">>
      [] OTHER -> <<>>

\* C13: a write of a car's status that changes it is followed by one Event
\* of the writing thread that names the status replaced and the new one; a
\* write of the status the car already has is followed by none.
C13_CarStatusEvents ==
    [][\A t \in Addr \cup ScenThreads :
          /\ \A c \in Cars :
                WritesCarStatus(t, c) =>
                    LET old == sensor_data[c].car_status
                        new == sensor_data'[c].car_status
                    IN  PendingCarEvent(t)' = IF old # new THEN <<old, new>> ELSE <<>>
          /\ (PendingCarEvent(t) # <<>> /\ pc'[t] # pc[t]) => Len(events') = Len(events) + 1]_vars

\* thread t completes, in this step, the add_car call of a sample (line 50)
EndsAddCar(t) ==
    \/ t \in Addr /\ pc[t] = "c_status" /\ pc'[t] # "c_status"
    \/ t \in ScenThreads /\ pc[t] = "k_status" /\ pc'[t] # "k_status"

\* C16: a scenario changes an entity as ingestion of the same values does:
\* it writes a car's status only at the end of add_car, after the sample of
\* the tick was appended, and a tick that replaces the status the car has is
\* followed by the Event that ingestion appends for that replacement.
C16_ScenarioTickIsIngest ==
    [][\A s \in ScenThreads, c \in Cars :
          WritesCarStatus(s, c) =>
              /\ EndsAddCar(s)
              /\ (sensor_data'[c].car_status # sensor_data[c].car_status) =>
                     PendingCarEvent(s)' # <<>>]_vars

(***************************************************************************)
(* One gateway's DATA, whole and partial, with any order of seq.           *)
(***************************************************************************)
DataLines == {ObjLine(b) : b \in {"dLo", "dHi", "dCo2", "dTemp", "dCarP", "dMix", "dNoS"}}

NextData ==
    \/ \E l \in DataLines : SendNext("a1", l)
    \/ client_loop_recv("a1", Max(1, Len(wire["a1"])))
    \/ client_thread("a1")
    \/ on_data_room("a1")
    \/ on_data_car("a1")

SpecData == InitServing /\ [][NextData]_vars

\* the `sensors` of the i-th line handed to the handler of a
SensorsOf(a, i) == Get(json_loads(dispatched[a][i]).obj, "sensors", <<>>)
SeqOf(a, i) == Get(json_loads(dispatched[a][i]).obj, "seq", 0)

\* the lines handed to the handler of a that carry a key of entity e
Carrying(a, e) ==
    {i \in 1..Len(dispatched[a]) : KeysOf[e] \cap DOMAIN SensorsOf(a, i) # {}}

\* C18: whatever the seq of a DATA message is next to the seq of the
\* messages before it - lower, equal, higher or absent - it adds one sample
\* to every entity it carries a key of: once the handler has drained its
\* connection, every entity holds as many samples as messages carried it, up
\* to the window.
C18_SeqNeverRejects ==
    Drained("a1") =>
        \A e \in Entities :
            Len(sensor_data[e].timestamps) = Min(MaxPoints, Cardinality(Carrying("a1", e)))

\* two messages for room 1200400, the second with the seq of the first or a
\* lower one, have left two samples
C18_Witness ==
    /\ Drained("a1")
    /\ Carrying("a1", "1200400") = {1, 2}
    /\ SeqOf("a1", 2) <= SeqOf("a1", 1)
    /\ Len(sensor_data["1200400"].smoke) = 2

\* what one DATA message with these `sensors` is to leave of entity e, whose
\* record was d: one more sample if a key of e is present, with 0.0 for an
\* absent metric of a room and UNKNOWN for an absent status of a car, and d
\* otherwise.  The time of the sample is left out of the comparison.
AfterData(d, e, sensors) ==
    IF KeysOf[e] \cap DOMAIN sensors = {} THEN d
    ELSE IF e \in Rooms
    THEN LET smoke == Get(sensors, SmokeKey[e], 0) IN
         [d EXCEPT !.timestamps = DequeAppend(@, 0),
                   !.smoke = DequeAppend(@, smoke),
                   !.co2 = DequeAppend(@, Get(sensors, Co2Key[e], 0)),
                   !.fire = DequeAppend(@, Get(sensors, FireKey[e], 0)),
                   !.alarm_status = @ \/ smoke >= ALARM_THRESHOLD * Hundredths,
                   !.sprinkler_status = @ \/ smoke >= SPRINKLER_THRESHOLD * Hundredths]
    ELSE [d EXCEPT !.timestamps = DequeAppend(@, 0),
                   !.car_temp = DequeAppend(@, Get(sensors, TempKey[e], 25 * Hundredths)),
                   !.car_status = Get(sensors, StatusKey[e], "UNKNOWN")]

RECURSIVE AfterLines(_, _, _)
\* entity e after the first n lines handed to the handler of a
AfterLines(a, e, n) ==
    IF n = 0 THEN SensorDataInit
    ELSE AfterData(AfterLines(a, e, n - 1), e, SensorsOf(a, n))

\* an entity's record without the times of its samples
Untimed(d) == [d EXCEPT !.timestamps = [i \in 1..Len(@) |-> 0]]

\* C20: a DATA message gives every entity that has at least one of its keys
\* in `sensors` exactly one sample, with 0.0 for the absent metrics of a room
\* and UNKNOWN for the absent status of a car, and leaves every other entity
\* as it is; a DATA message without `sensors` changes no entity.  Once the
\* handler has drained its connection, every entity is what the messages
\* handed over leave of it, one after the other.
C20_PartialPayloads ==
    Drained("a1") =>
        \A e \in Entities :
            Untimed(sensor_data[e]) = AfterLines("a1", e, Len(dispatched["a1"]))

\* a message with co2_1 only and one with car1_temp only have been ingested
C20_Witness ==
    /\ Drained("a1")
    /\ dispatched["a1"] = <<ObjLine("dCo2"), ObjLine("dTemp")>>
    /\ sensor_data["1200400"].smoke = <<0>>
    /\ sensor_data["1200400"].co2 = <<85000>>
    /\ sensor_data["car1"].car_status = "UNKNOWN"
    /\ sensor_data["car2"] = SensorDataInit

(***************************************************************************)
(* A session sending HEARTBEAT and STATUS next to a session sending DATA,   *)
(* with the clock running.                                                 *)
(***************************************************************************)
HeartbeatLines == {ObjLine("hb2"), ObjLine("st")}

NextHeartbeat ==
    \/ start
    \/ \E a \in SessionAddrs : Connect(a)
    \/ accept_thread
    \/ Tick
    \/ SendNext("a1", ObjLine("dHi"))
    \/ \E l \in HeartbeatLines : SendNext("a2", l)
    \/ \E a \in SessionAddrs : client_loop_recv(a, Max(1, Len(wire[a])))
    \/ \E a \in SessionAddrs : client_thread(a)
    \/ \E a \in SessionAddrs : on_data_room(a)

SpecHeartbeat == Init /\ [][NextHeartbeat]_vars

\* the handler of a is processing a decoded object whose type is not DATA
ProcessingOther(a) == loc[a].data.type \notin {"none", "nonobject", "DATA"}

\* C19: no step that the handler of a session takes for a decoded message
\* whose type is not DATA - HEARTBEAT or any other - changes an entity, the
\* event log, packet_count, last_seq or the registry entry of another
\* session; what it may change is its own entry's time and identity.
C19_HeartbeatOnlyBookkeeping ==
    [][\A a \in Addr :
          (ProcessingOther(a) /\ pc'[a] # pc[a]) =>
              /\ UNCHANGED <<sensor_data, events, packet_count, last_seq>>
              /\ \A b \in Addr \ {a} : clients'[b] = clients[b]
              /\ clients'[a].in = clients[a].in]_vars

\* a HEARTBEAT has given session a2 its identity and a later time while
\* session a1 is registered and has delivered DATA
C19_Witness ==
    /\ clients["a1"].in
    /\ clients["a2"].gw = "GW-2"
    /\ clients["a2"].last > 0
    /\ packet_count > 0

(***************************************************************************)
(* Concurrent broadcasts: the console's pause-gw and resume-gw next to the *)
(* SCENARIO messages of starting scenario threads.                         *)
(***************************************************************************)
Broadcasters == ScenThreads \cup {"ui"}
BroadcastScenarios == {"car1", "test"}
BroadcastMsgs == {"PAUSE", "RESUME"} \cup {"SCENARIO " \o n : n \in BroadcastScenarios}

NextAtomic ==
    \/ PeerReset("a1")
    \/ ui_loop_head
    \/ \E command \in {"PAUSE", "RESUME"} : process_command_gw(command)
    \/ \E name \in BroadcastScenarios, s \in ScenThreads : process_command_scenario(name, s)
    \/ \E t \in Broadcasters : send_control_all(t)
    \/ \E t \in Broadcasters : send_control_all_part(t)

SpecAtomic == InitServing /\ [][NextAtomic]_vars

\* thread t is in the middle of writing a message to connection a
MidMessage(t, a) ==
    pc[t] = "bc_send" /\ loc[t].tmp = 1 /\ Head(loc[t].todo) = a

accept_loop_exit ==
    /\ pc["acc"] = "accept"
    /\ ~running
    /\ pc' = [pc EXCEPT !["acc"] = "done"]
    /\ UNCHANGED <<running, lock, shared, net, now, gateway, loc, hist>>

\* the positions at which a thread has returned, or was never started
Returned == {"none", "done", "closed"}

\* lines 187-192, 544 and 561: the main loop sees running False; stop(), in
\* the finally clause, returns at its first line because running is already
\* False; start() returns and the interpreter exits.  Every thread is a
\* daemon thread (lines 183, 184, 203, 377): it ends where it stands.
main_loop_exit ==
    /\ pc["main"] = "main_loop"
    /\ ~running
    /\ pc' = [t \in Threads |-> IF t = "main" THEN "exited"
                                ELSE IF pc[t] \in Returned THEN pc[t] ELSE "killed"]
    /\ UNCHANGED <<running, lock, shared, net, now, gateway, loc, hist>>

\* lines 556-558 and 544-546: SIGINT is handled in the main thread, between
\* two steps of its loop; stop() goes on only if running is still True, and
\* clears it
signal_handler ==
    /\ pc["main"] = "main_loop"
    /\ running
    /\ running' = FALSE
    /\ pc' = [pc EXCEPT !["main"] = "stop_lock"]
    /\ UNCHANGED <<lock, shared, net, now, gateway, loc, hist>>

\* line 547: with self.lock
stop_lock ==
    /\ pc["main"] = "stop_lock"
    /\ lock = "free"
    /\ lock' = "main"
    /\ pc' = [pc EXCEPT !["main"] = "stop_close"]
    /\ UNCHANGED <<running, shared, net, now, gateway, loc, hist>>

\* lines 548-550: every socket of the registry is closed, and the lock released
stop_close ==
    /\ pc["main"] = "stop_close"
    /\ sock' = [a \in DOMAIN sock |-> IF a \in Addr /\ clients[a].in THEN "closed" ELSE sock[a]]
    /\ lock' = "free"
    /\ pc' = [pc EXCEPT !["main"] = "stop_server"]
    /\ UNCHANGED <<running, shared, wire, peer, outbox, backlog, now, gateway, loc, hist>>

\* lines 551-553: the listening socket is closed; stop() returns to the loop
stop_server ==
    /\ pc["main"] = "stop_server"
    /\ sock' = [sock EXCEPT !["srv"] = "closed"]
    /\ pc' = [pc EXCEPT !["main"] = "main_loop"]
    /\ UNCHANGED <<running, lock, shared, wire, peer, outbox, backlog, now, gateway, loc, hist>>

stop ==
    \/ stop_lock
    \/ stop_close
    \/ stop_server

NextShutdown ==
    \/ SendNext("a1", ObjLine("dCar"))
    \/ client_loop_recv("a1", Max(1, Len(wire["a1"])))
    \/ client_thread("a1")
    \/ client_loop_finally("a1")
    \/ on_data_head("a1")
    \/ on_data_car("a1")
    \/ accept_loop_exit
    \/ ui_loop_head
    \/ process_command_exit
    \/ process_command_scenario("car1", "s1")
    \/ send_control_all("s1")
    \/ scenario_car("s1")
    \/ main_loop_exit

\* every thread that can take a step is scheduled sooner or later
SpecShutdown ==
    /\ InitServing
    /\ [][NextShutdown]_vars
    /\ WF_vars(client_loop_recv("a1", Max(1, Len(wire["a1"]))))
    /\ WF_vars(client_thread("a1") \/ client_loop_finally("a1"))
    /\ WF_vars(on_data_head("a1") \/ on_data_car("a1"))
    /\ WF_vars(accept_loop_exit)
    /\ WF_vars(ui_loop_head)
    /\ WF_vars(send_control_all("s1") \/ scenario_car("s1"))
    /\ WF_vars(main_loop_exit)

\* every handler has closed its socket and removed its session
HandlersClosed ==
    \A a \in Addr : pc[a] \in {"none", "closed"} /\ ~clients[a].in /\ sock[a] # "open"

\* C15: once running is cleared, the accept loop, every handler and every
\* scenario leave their loops, every handler's socket is closed and its
\* session removed; a scenario at its loop head starts no further iteration
\* and writes nothing more to the store.
C15_CancellationCompletes ==
    /\ (~running) ~> /\ pc["acc"] = "done"
                     /\ HandlersClosed
                     /\ \A s \in ScenThreads : pc[s] \in {"none", "done"}
    /\ [][\A s \in ScenThreads :
             (~running /\ pc[s] \in {"k_head", "k_end"} /\ pc'[s] # pc[s]) =>
                 (pc'[s] \in {"k_end", "done", "killed"} /\ sensor_data' = sensor_data)]_vars

(***************************************************************************)
(* The lock: a handler's registry updates and cleanup, the console's        *)
(* broadcast and stop(), all at once; shutdown by `exit` and by SIGINT.     *)
(***************************************************************************)
LockLines == {ObjLine("hb"), <<"[", "]">>}

LockThreads == {"a1", "ui", "main"}

NextLock ==
    \/ \E l \in LockLines : SendNext("a1", l)
    \/ client_loop_recv("a1", Max(1, Len(wire["a1"])))
    \/ client_thread("a1")
    \/ client_loop_finally("a1")
    \/ ui_loop_head
    \/ process_command_gw("PAUSE")
    \/ process_command_exit
    \/ send_control_all("ui")
    \/ signal_handler
    \/ stop
    \/ main_loop_exit

\* every thread that can take a step is scheduled sooner or later
SpecLock ==
    /\ InitServing
    /\ [][NextLock]_vars
    /\ WF_vars(client_loop_recv("a1", Max(1, Len(wire["a1"]))))
    /\ WF_vars(client_thread("a1") \/ client_loop_finally("a1"))
    /\ WF_vars(ui_loop_head \/ send_control_all("ui"))
    /\ WF_vars(stop \/ main_loop_exit)

\* the positions at which a thread waits for the lock, and those at which it
\* holds it
Acquiring == {"pm_lock", "fin_lock", "bc_lock", "stop_lock"}
Holding == {"pm_upd", "fin_pop", "bc_send", "stop_close"}

\* the interpreter has exited
Exited == pc["main"] = "exited"

\* C21: no thread asks for the lock while it holds it; the lock is held by a
\* thread inside one of the `with self.lock` blocks and by no other; and as
\* long as the process runs, a lock that is held is released and a thread
\* that asks for it - a handler at its cleanup or its registry update, a
\* broadcast, stop() - obtains it.
C21_LockDiscipline ==
    /\ [](\A t \in LockThreads :
             /\ pc[t] \in Acquiring => lock # t
             /\ (lock = t /\ ~Exited) <=> pc[t] \in Holding)
    /\ \A t \in LockThreads : (pc[t] \in Acquiring) ~> (lock = t \/ Exited)
    /\ (lock # "free") ~> (lock = "free" \/ Exited)

\* the broadcast holds the lock while a handler at its cleanup and stop()
\* both wait for it
C21_Witness ==
    /\ lock = "ui"
    /\ pc["a1"] = "fin_lock"
    /\ pc["main"] = "stop_lock"

(***************************************************************************)
(* Ingestion only: one gateway's DATA next to the fire1 scenario, with no   *)
(* control command and no normal scenario.                                  *)
(***************************************************************************)
LatchLines == {ObjLine("dLo"), ObjLine("dHi"), ObjLine("dMix")}

NextLatch ==
    \/ \E l \in LatchLines : SendNext("a1", l)
    \/ client_loop_recv("a1", Max(1, Len(wire["a1"])))
    \/ client_thread("a1")
    \/ on_data_room("a1")
    \/ on_data_car("a1")
    \/ ui_loop_head
    \/ process_command_scenario("fire1", "s1")
    \/ send_control_all("s1")
    \/ scenario_fire("s1")

SpecLatch == InitServing /\ [][NextLatch]_vars

\* C22: as long as samples are only ingested - DATA messages and the fire
\* scenario, in any interleaving - and nothing clears a latch, a room whose
\* sprinkler is on is in alarm.
C22_SprinklerImpliesAlarm ==
    \A r \in Rooms : Sprinkler(r) => Alarm(r)

\* the sprinkler of room 1200400 is on while the handler and the scenario
\* are both in the middle of a sample
C22_Witness ==
    /\ Sprinkler("1200400")
    /\ pc["a1"] \in {"r_ts", "r_smoke", "r_co2", "r_fire", "r_al", "r_sp"}
    /\ pc["s1"] \in {"f_ts", "f_smoke", "f_co2", "f_fire", "f_al", "f_sp"}

\* C23: whichever way shutdown was requested - `exit` or SIGINT - once
\* start() has returned the listening socket is closed and no socket of the
\* registry is open; and stop() closes sockets in one call only.
C23_StopClosesSockets ==
    /\ [](Exited => /\ sock["srv"] = "closed"
                    /\ \A a \in Addr : clients[a].in => sock[a] # "open")
    /\ [][pc["main"] = "stop_server" => sock["srv"] = "open"]_vars

(***************************************************************************)
(* Two gateways delivering DATA at the same time.                           *)
(***************************************************************************)
NextCounters ==
    \/ start
    \/ \E a \in SessionAddrs : Connect(a)
    \/ accept_thread
    \/ SendNext("a1", ObjLine("dHi"))
    \/ SendNext("a2", ObjLine("dLo"))
    \/ \E a \in SessionAddrs : client_loop_recv(a, Max(1, Len(wire[a])))
    \/ \E a \in SessionAddrs : client_thread(a)
    \/ \E a \in SessionAddrs : on_data_room(a)

SpecCounters == Init /\ [][NextCounters]_vars

\* the DATA messages handed to the handler of a
DataHandled(a) ==
    {i \in 1..Len(dispatched[a]) : json_loads(dispatched[a][i]).obj.type = "DATA"}

\* no handler is in the middle of a message
NoneMidMessage == \A a \in Addr : pc[a] \in {"none", "loop", "recv"} /\ wire[a] = <<>>

\* C24: packet_count is the number of DATA messages handled, whatever the
\* number of connections delivering them at the same time: whenever no
\* handler is in the middle of a message, it equals the number of DATA
\* messages handed over.
C24_PacketCountExact ==
    NoneMidMessage =>
        packet_count = Cardinality(DataHandled("a1")) + Cardinality(DataHandled("a2"))

\* the highest seq of the DATA messages handled so far, 0 if none
MaxSeqHandled ==
    LET seqs == {0} \cup UNION {{SeqOf(a, i) : i \in DataHandled(a)} : a \in SessionAddrs}
    IN  CHOOSE m \in seqs : \A n \in seqs : n <= m

\* C25: last_seq never decreases, and whenever no handler is in the middle of
\* a message it is the highest seq of the DATA messages handled so far.
C25_LastSeqIsMax ==
    /\ [][last_seq' >= last_seq]_vars
    /\ [](NoneMidMessage => last_seq = MaxSeqHandled)

(***************************************************************************)
(* Re-arming of the latches: one gateway whose first DATA message carried  *)
(* smoke 70.00 for room 1200400, the operator clearing the latches with    *)
(* control ... off and with the normal scenario.                           *)
(***************************************************************************)
\* The server of InitServing after _on_data has handled one DATA message
\* with smoke1 = 70.00 (lines 255-307): one sample, both latches set, both
\* ON Events logged.  The history variables count from this state on.
InitAlarmed ==
    /\ running = TRUE
    /\ lock = "free"
    /\ clients = [a \in Addr |-> IF a = "a1" THEN [in |-> TRUE, last |-> 0, gw |-> "GW-1"]
                                 ELSE NotRegistered]
    /\ sensor_data = [e \in Entities |->
                        IF e = "1200400"
                        THEN [SensorDataInit EXCEPT !.timestamps = <<0>>, !.smoke = <<7000>>,
                                                    !.co2 = <<90000>>, !.fire = <<4000>>,
                                                    !.alarm_status = TRUE,
                                                    !.sprinkler_status = TRUE]
                        ELSE SensorDataInit]
    /\ events = <<"Starting cloud server ...", AlarmOn("1200400"), SprinklerOn("1200400")>>
    /\ packet_count = 1
    /\ last_seq = 3
    /\ sock = [a \in Addr \cup {"srv"} |-> IF a \in {"a1", "srv"} THEN "open" ELSE "none"]
    /\ wire = [a \in Addr |-> <<>>]
    /\ peer = [a \in Addr |-> IF a = "a1" THEN "open" ELSE "none"]
    /\ outbox = [a \in Addr |-> <<>>]
    /\ backlog = {}
    /\ now = 0
    /\ pc = [t \in Threads |->
               CASE t = "main" -> "main_loop"
                 [] t = "acc" -> "accept"
                 [] t = "ui" -> "ui_loop"
                 [] t = "a1" -> "loop"
                 [] OTHER -> "none"]
    /\ loc = [t \in Threads |-> NoLoc]
    /\ sent = [a \in Addr |-> <<>>]
    /\ dispatched = [a \in Addr |-> <<>>]
    /\ ncmd = 0
    /\ printed = <<>>
    /\ GatewayInit

NextRearm ==
    \/ \E l \in IngestLines : SendNext("a1", l)
    \/ client_loop_recv("a1", Max(1, Len(wire["a1"])))
    \/ client_thread("a1")
    \/ on_data_room("a1")
    \/ ui_loop_head
    \/ process_command_control("ALARM_", "1200400", "off")
    \/ process_command_control("sprink_", "1200400", "off")
    \/ control_device_set
    \/ control_device_event
    \/ process_command_scenario("normal", "s1")
    \/ send_control_all("s1")
    \/ scenario_normal("s1")

SpecRearm == InitAlarmed /\ [][NextRearm]_vars

\* the number of times the Event msg is in the log
EventCount(msg) == Cardinality({i \in 1..Len(events) : events[i] = msg})

\* C26: the latches are level-triggered and re-arm after a clear.  With one
\* ingesting connection next to `control ... off` and the normal scenario:
\* a sample whose test finds smoke >= the threshold and the latch false
\* (never set, or cleared since) goes on to set the latch, the set makes the
\* latch true without logging, and the step after it appends exactly the
\* one ON Event of that latch; a sample that finds the latch true or smoke
\* below the threshold sets nothing and logs nothing, and no step of a
\* handler whose sample is below the threshold changes the latch.
C26_LatchesRearm ==
    [][\A a \in Addr, r \in Rooms :
         (pc[a] \in {"r_al", "r_al_set", "r_al_ev", "r_sp", "r_sp_set", "r_sp_ev"}
          /\ pc'[a] # pc[a] /\ Ent(a) = r) =>
           LET on == EventCount(AlarmOn(r))
               son == EventCount(SprinklerOn(r))
           IN
           /\ pc[a] = "r_al" =>
                /\ (pc'[a] = "r_al_set") <=>
                      (Smoke(a) >= ALARM_THRESHOLD * Hundredths /\ ~Alarm(r))
                /\ pc'[a] \in {"r_al_set", "r_sp"}
                /\ Alarm(r)' = Alarm(r) /\ events' = events
           /\ pc[a] = "r_al_set" =>
                Alarm(r)' /\ pc'[a] = "r_al_ev" /\ events' = events
           /\ pc[a] = "r_al_ev" =>
                /\ events' = Append(events, AlarmOn(r))
                /\ EventCount(AlarmOn(r))' = on + 1
                /\ pc'[a] = "r_sp"
           /\ pc[a] = "r_sp" =>
                /\ (pc'[a] = "r_sp_set") <=>
                      (Smoke(a) >= SPRINKLER_THRESHOLD * Hundredths /\ ~Sprinkler(r))
                /\ Sprinkler(r)' = Sprinkler(r) /\ events' = events
           /\ pc[a] = "r_sp_set" =>
                Sprinkler(r)' /\ pc'[a] = "r_sp_ev" /\ events' = events
           /\ pc[a] = "r_sp_ev" =>
                /\ events' = Append(events, SprinklerOn(r))
                /\ EventCount(SprinklerOn(r))' = son + 1
           /\ Smoke(a) < ALARM_THRESHOLD * Hundredths => Alarm(r)' = Alarm(r)
           /\ Smoke(a) < SPRINKLER_THRESHOLD * Hundredths => Sprinkler(r)' = Sprinkler(r)]_vars

\* the alarm of room 1200400 was set, cleared with control ... off and set
\* again by the next sample of 70.00: its second ON Event follows the OFF
C26_Witness ==
    /\ Alarm("1200400")
    /\ EventCount(AlarmOn("1200400")) = 2
    /\ events[Len(events)] = AlarmOn("1200400")
    /\ events[Len(events) - 1] = "ALARM_1200400 -> OFF"
    /\ Len(sensor_data["1200400"].smoke) = 2

(***************************************************************************)
(* gateway_plus.py: the gateway, a single-threaded program.  The cloud is  *)
(* its environment: it writes CONTROL commands to the connection and may   *)
(* close it.                                                               *)
(***************************************************************************)
MaxSeq == 5         \* messages the gateway builds
MaxElapsed == 16    \* seconds the gateway's clock advances
MaxControls == 2    \* CONTROL commands the gateway processes

server == <<running, lock, shared, net, now, pc, loc, hist>>

\* the message Gateway builds: its type and seq; `after` records how many
\* commands had been processed and `at` where run was when it was built
Message(type) == [type |-> type, seq |-> seq + 1, after |-> Len(handled), at |-> gpc]

\* lines 46-55: _send.  sendall on the non-blocking socket either takes
\* the bytes or raises, and then the socket is closed.
send(obj) ==
    IF ~connected
    THEN UNCHANGED <<connected, link, out>>
    ELSE \/ out' = Append(out, obj) /\ UNCHANGED <<connected, link>>
         \/ connected' = FALSE /\ link' = "none" /\ UNCHANGED out

\* lines 58-61: _heartbeat
heartbeat ==
    /\ seq < MaxSeq
    /\ seq' = seq + 1
    /\ send(Message("HEARTBEAT"))
    /\ last_hb' = clock

\* lines 63-88: _send_data
send_data ==
    /\ seq < MaxSeq
    /\ seq' = seq + 1
    /\ send(Message("DATA"))

\* lines 35-39: connect, the connection is made
connect(at, to) ==
    /\ gpc = at
    /\ link' = "up"
    /\ inbox' = <<>>
    /\ connected' = TRUE
    /\ gpc' = to
    /\ UNCHANGED <<seq, last_hb, paused, t0, run_now, clock, out, handled, server>>

\* lines 40-41: connect, self._heartbeat() and break
connect_heartbeat(at, to) ==
    /\ gpc = at
    /\ heartbeat
    /\ gpc' = to
    /\ UNCHANGED <<paused, t0, run_now, clock, inbox, handled, server>>

\* line 167: run calls connect and enters the loop
run_connect ==
    \/ connect("run", "run_hb")
    \/ connect_heartbeat("run_hb", "loop")

\* lines 170-173: if not self.connected: sleep(1), connect()
run_loop ==
    /\ gpc = "loop"
    /\ gpc' = IF connected THEN "now" ELSE "reconnect"
    /\ UNCHANGED <<seq, last_hb, paused, connected, t0, run_now, clock, link, inbox, out,
                   handled, server>>

run_reconnect ==
    \/ connect("reconnect", "reconnect_hb")
    \/ connect_heartbeat("reconnect_hb", "now")

\* line 175: now = time.time()
run_read_now ==
    /\ gpc = "now"
    /\ run_now' = clock
    /\ gpc' = "hb_check"
    /\ UNCHANGED <<seq, last_hb, paused, connected, t0, clock, link, inbox, out, handled,
                   server>>

\* lines 176-177: if now - self.last_hb >= HEARTBEAT_INTERVAL: self._heartbeat()
run_heartbeat ==
    /\ gpc = "hb_check"
    /\ IF run_now - last_hb >= HEARTBEAT_INTERVAL
       THEN heartbeat
       ELSE UNCHANGED <<seq, last_hb, connected, link, out>>
    /\ gpc' = "data_check"
    /\ UNCHANGED <<paused, t0, run_now, clock, inbox, handled, server>>

\* a data timer that does not look at self.paused
run_data_ignores_pause ==
    /\ gpc = "data_check"
    /\ IF run_now - t0 >= DATA_INTERVAL
       THEN send_data /\ t0' = run_now
       ELSE UNCHANGED <<seq, connected, link, out, t0>>
    /\ gpc' = "recv"
    /\ UNCHANGED <<last_hb, paused, run_now, clock, inbox, handled, server>>

\* lines 179-182: if not self.paused and now - t0 >= DATA_INTERVAL:
\* _tick(), _send_data(), t0 = now
run_data ==
    /\ gpc = "data_check"
    /\ IF ~paused /\ run_now - t0 >= DATA_INTERVAL
       THEN send_data /\ t0' = run_now
       ELSE UNCHANGED <<seq, connected, link, out, t0>>
    /\ gpc' = "recv"
    /\ UNCHANGED <<last_hb, paused, run_now, clock, inbox, handled, server>>

ControlCommands == {"PAUSE", "RESUME", "SCENARIO"}

\* lines 125-133: _handle_control, self.paused after the command
handle_control(p, cmd) ==
    IF cmd = "PAUSE" THEN TRUE ELSE IF cmd = "RESUME" THEN FALSE ELSE p

\* lines 155-161: the lines of one recv, in order
RECURSIVE handle_lines(_, _)
handle_lines(p, cmds) ==
    IF cmds = <<>> THEN p ELSE handle_lines(handle_control(p, Head(cmds)), Tail(cmds))

\* lines 148-163, 184: _recv_loop.  recv returns some of the lines that
\* have arrived, raises BlockingIOError when there is none, returns b""
\* when the cloud has closed, or raises another OSError (the socket was
\* closed by _send, the connection was reset), which ends run.
recv_loop ==
    /\ gpc = "recv"
    /\ \/ /\ link = "none"
          /\ gpc' = "crashed"
          /\ UNCHANGED <<paused, connected, link, inbox, handled>>
       \/ /\ link # "none" /\ inbox # <<>>
          /\ \E k \in 1..Len(inbox) :
               /\ paused' = handle_lines(paused, SubSeq(inbox, 1, k))
               /\ handled' = handled \o SubSeq(inbox, 1, k)
               /\ inbox' = SubSeq(inbox, k + 1, Len(inbox))
          /\ gpc' = "loop"
          /\ UNCHANGED <<connected, link>>
       \/ /\ link = "up" /\ inbox = <<>>
          /\ gpc' = "loop"
          /\ UNCHANGED <<paused, connected, link, inbox, handled>>
       \/ /\ link = "down" /\ inbox = <<>>
          /\ \/ connected' = FALSE /\ gpc' = "loop"
             \/ gpc' = "crashed" /\ UNCHANGED connected
          /\ UNCHANGED <<paused, link, inbox, handled>>
    /\ UNCHANGED <<seq, last_hb, t0, run_now, clock, out, server>>

\* cloud_server_plus.py lines 226-230, 364-367: the cloud writes a CONTROL
\* command to the gateway's connection
cloud_control(cmd) ==
    /\ link = "up"
    /\ Len(handled) + Len(inbox) < MaxControls
    /\ inbox' = Append(inbox, cmd)
    /\ UNCHANGED <<seq, last_hb, paused, connected, t0, run_now, gpc, clock, link, out,
                   handled, server>>

\* cloud_server_plus.py lines 205-224, 543-554: the cloud closes the connection
cloud_close ==
    /\ link = "up"
    /\ link' = "down"
    /\ UNCHANGED <<seq, last_hb, paused, connected, t0, run_now, gpc, clock, inbox, out,
                   handled, server>>

\* lines 44, 172, 185: time passes while the gateway sleeps, in run and,
\* as long as the connection is refused, in connect
GatewayTick(d) ==
    /\ gpc \in {"loop", "run", "reconnect"}
    /\ clock + d <= Epoch + MaxElapsed
    /\ clock' = clock + d
    /\ UNCHANGED <<seq, last_hb, paused, connected, t0, run_now, gpc, link, inbox, out,
                   handled, server>>

NextGateway ==
    \/ run_connect
    \/ run_loop
    \/ run_reconnect
    \/ run_read_now
    \/ run_heartbeat
    \/ run_data
    \/ recv_loop
    \/ \E cmd \in ControlCommands : cloud_control(cmd)
    \/ cloud_close
    \/ GatewayTick(HEARTBEAT_INTERVAL)

SpecGateway == Init /\ [][NextGateway]_vars

\* the last PAUSE or RESUME that the gateway has processed, "" if none
LastPauseCommand ==
    LET s == {i \in 1..Len(handled) : handled[i] \in {"PAUSE", "RESUME"}} IN
    IF s = {} THEN "" ELSE handled[CHOOSE i \in s : \A j \in s : j <= i]

\* C27: the gateway's pause protocol.  A step that sends sends one message;
\* a DATA message is never sent while the last PAUSE or RESUME processed is
\* a PAUSE; the seq of every message sent is greater than the seq of every
\* message sent before it, across pauses and reconnects; a heartbeat that
\* is due at the loop's test is built and handed to _send whether the
\* gateway is paused or not; and once the last command processed is a
\* RESUME (or none), a DATA message that is due is built and handed to _send.
C27_PauseProtocol ==
    /\ [][out' # out =>
            /\ Len(out') = Len(out) + 1 /\ SubSeq(out', 1, Len(out)) = out
            /\ out'[Len(out')].type = "DATA" => LastPauseCommand # "PAUSE"
            /\ \A i \in 1..Len(out) : out[i].seq < out'[Len(out')].seq]_vars
    /\ [](\A i, j \in 1..Len(out) : i < j => out[i].seq < out[j].seq)
    /\ [][(gpc = "hb_check" /\ gpc' # gpc /\ run_now - last_hb >= HEARTBEAT_INTERVAL) =>
            /\ seq' = seq + 1 /\ last_hb' = clock
            /\ \/ out' = Append(out, [type |-> "HEARTBEAT", seq |-> seq', after |-> Len(handled),
                                    at |-> "hb_check"])
               \/ ~connected' /\ out' = out]_vars
    /\ [][(gpc = "data_check" /\ gpc' # gpc /\ run_now - t0 >= DATA_INTERVAL) =>
            IF LastPauseCommand = "PAUSE"
            THEN out' = out /\ seq' = seq
            ELSE /\ seq' = seq + 1
                 /\ \/ out' = Append(out, [type |-> "DATA", seq |-> seq', after |-> Len(handled),
                                       at |-> "data_check"])
                    \/ ~connected' /\ out' = out]_vars

\* DATA was sent, PAUSE was processed, a heartbeat went out at its interval
\* during the pause, RESUME was processed and DATA was sent again
C27_Witness ==
    /\ handled = <<"PAUSE", "RESUME">>
    /\ \E i, j, k \in 1..Len(out) :
         /\ i < j /\ j < k
         /\ out[i].type = "DATA" /\ out[i].after = 0
         /\ out[j].type = "HEARTBEAT" /\ out[j].after = 1 /\ out[j].at = "hb_check"
         /\ out[k].type = "DATA" /\ out[k].after = 2

=============================================================================
